---------------------------- MODULE Spec2Model ----------------------------
(***************************************************************************)
(* A model of the Uri library (RFC 3986 parsing, generation, path          *)
(* normalization and reference resolution).                                *)
(*                                                                         *)
(* A character is its byte value (0..255); a std::string is a sequence of  *)
(* bytes; a path is a sequence of strings.                                 *)
(***************************************************************************)
EXTENDS Integers, Sequences, FiniteSets, TLC

(***************************************************************************)
(* Bounds of the model.                                                    *)
(***************************************************************************)
\* number of segments of the paths given to SetPath
MaxSegs == 5
\* length of the strings given to ParseFromString in the round trip
MaxLen == 4
\* length of the path part of the base strings parsed before Resolve
MaxBaseLen == 3
\* length of the reference strings parsed before Resolve
MaxRefLen == 3
\* number of calls made on one Uri object by the history specification
MaxOps == 2

MaxHostLen == 3

MaxPortLen == 6

(***************************************************************************)
(* The bytes the model names.                                              *)
(***************************************************************************)
Ch == [ space |-> 32, plus |-> 43, minus |-> 45, percent |-> 37, hash |-> 35, dot |-> 46, slash |-> 47,
        zero |-> 48, one |-> 49, two |-> 50, three |-> 51, four |-> 52, five |-> 53, six |-> 54, eight |-> 56,
        nine |-> 57, colon |-> 58, question |-> 63, at |-> 64,
        A |-> 65, F |-> 70, H |-> 72, S |-> 83, U |-> 85, Z |-> 90,
        lbracket |-> 91, rbracket |-> 93,
        a |-> 97, f |-> 102, g |-> 103, h |-> 104, q |-> 113, s |-> 115, u |-> 117,
        v |-> 118, x |-> 120, y |-> 121, z |-> 122 ]

Byte == 0..255

(***************************************************************************)
(* CharacterSet: the three constructors and Contains.                      *)
(***************************************************************************)
CharacterSetOf(c) == {c}

CharacterSetRange(first, last) == {c \in Byte : first <= c /\ c <= last}

CharacterSetUnion(characterSets) == UNION characterSets

Contains(characterSet, c) == c \in characterSet

(***************************************************************************)
(* The grammar sets of Uri.cpp.                                            *)
(***************************************************************************)
ALPHA == CharacterSetUnion({CharacterSetRange(Ch.a, Ch.z),
                            CharacterSetRange(Ch.A, Ch.Z)})

DIGIT == CharacterSetRange(Ch.zero, Ch.nine)

HEXDIG == CharacterSetUnion({CharacterSetRange(Ch.zero, Ch.nine),
                             CharacterSetRange(Ch.A, Ch.F),
                             CharacterSetRange(Ch.a, Ch.f)})

\* '-' '.' '_' '~'
UNRESERVED == CharacterSetUnion({ALPHA, DIGIT, {45, 46, 95, 126}})

\* '!' '$' '&' ''' '(' ')' '*' '+' ',' ';' '='
SUB_DELIMS == {33, 36, 38, 39, 40, 41, 42, 43, 44, 59, 61}

\* '+' '-' '.'
SCHEME_NOT_FIRST == CharacterSetUnion({ALPHA, DIGIT, {43, 45, 46}})

PCHAR_NOT_PCT_ENCODED ==
    CharacterSetUnion({UNRESERVED, SUB_DELIMS, {Ch.colon, Ch.at}})

QUERY_OR_FRAGMENT_NOT_PCT_ENCODED ==
    CharacterSetUnion({PCHAR_NOT_PCT_ENCODED, {Ch.slash, Ch.question}})

USER_INFO_NOT_PCT_ENCODED ==
    CharacterSetUnion({UNRESERVED, SUB_DELIMS, {Ch.colon}})

REG_NAME_NOT_PCT_ENCODED == CharacterSetUnion({UNRESERVED, SUB_DELIMS})

IPV_FUTURE_LAST_PART ==
    CharacterSetUnion({UNRESERVED, SUB_DELIMS, {Ch.colon}})

(***************************************************************************)
(* std::string helpers.                                                    *)
(***************************************************************************)
\* s.find(c), s.find_first_of(set): the 1-based index of the first byte of
\* the set in s at or after index i, 0 for npos
FindFrom(str, set, i) ==
    LET found == {k \in i..Len(str) : str[k] \in set}
    IN IF found = {} THEN 0
       ELSE CHOOSE k \in found : \A j \in found : k <= j

Find(str, c) == FindFrom(str, {c}, 1)

FindFirstOf(str, set) == FindFrom(str, set, 1)

\* s.substr(pos) with a 0-based pos
SubstrFrom(str, pos) == SubSeq(str, pos + 1, Len(str))

\* s.substr(0, n)
SubstrTo(str, n) == SubSeq(str, 1, IF n < Len(str) THEN n ELSE Len(str))

(***************************************************************************)
(* NormalizeCaseInsensitiveString: tolower on every byte.                  *)
(***************************************************************************)
ToLower(c) == IF Ch.A <= c /\ c <= Ch.Z THEN c + 32 ELSE c

NormalizeCaseInsensitiveString(inString) ==
    [i \in 1..Len(inString) |-> ToLower(inString[i])]

(***************************************************************************)
(* PercentEncodedCharacterDecoder.                                         *)
(***************************************************************************)
NewDecoder == [decodedCharacter |-> 0, decoderState |-> 0]

HEX_UPPER == CharacterSetRange(Ch.A, Ch.F)

HEX_LOWER == CharacterSetRange(Ch.a, Ch.f)

\* the hex digit value that knows no lower-case digit
HexValue_NoLowerCase(c) ==
    IF Contains(DIGIT, c) THEN c - Ch.zero
    ELSE IF Contains(HEX_UPPER, c) THEN (c - Ch.A) + 10
    ELSE -1

\* the value NextEncodedCharacter gives a hex digit, -1 for any other byte
HexValue(c) ==
    IF Contains(DIGIT, c) THEN c - Ch.zero
    ELSE IF Contains(HEX_UPPER, c) THEN (c - Ch.A) + 10
    ELSE IF Contains(HEX_LOWER, c) THEN (c - Ch.a) + 10
    ELSE -1

\* returns the bool result and the decoder after the call
NextEncodedCharacter(d, c) ==
    CASE d.decoderState = 0 ->
           IF HexValue(c) >= 0
           THEN [ok |-> TRUE,
                 d |-> [decodedCharacter |-> HexValue(c), decoderState |-> 1]]
           ELSE [ok |-> FALSE,
                 d |-> [d EXCEPT !.decoderState = 1]]
      [] d.decoderState = 1 ->
           IF HexValue(c) >= 0
           THEN [ok |-> TRUE,
                 d |-> [decodedCharacter |-> d.decodedCharacter * 16 + HexValue(c),
                        decoderState |-> 2]]
           ELSE [ok |-> FALSE,
                 d |-> [decodedCharacter |-> d.decodedCharacter * 16,
                        decoderState |-> 2]]
      [] OTHER -> [ok |-> TRUE, d |-> d]

Done(d) == d.decoderState = 2

\* (char)impl_->decodedCharacter
GetDecodedCharacter(d) == d.decodedCharacter % 256

\* F applied to the value of v, v being evaluated once
Bind(v, F(_)) == CHOOSE result \in {F(x) : x \in {v}} : TRUE

(***************************************************************************)
(* DecodeElement: returns the bool result and the element as the call      *)
(* leaves it (on failure, what had been decoded so far).                   *)
(***************************************************************************)
RECURSIVE DecodeLoop(_, _, _, _, _, _)
DecodeLoop(original, allowed, i, element, decodingPec, pecDecoder) ==
    IF i > Len(original) THEN [ok |-> TRUE, element |-> element]
    ELSE LET c == original[i] IN
      IF decodingPec THEN
        Bind(NextEncodedCharacter(pecDecoder, c), LAMBDA n :
          IF ~n.ok THEN [ok |-> FALSE, element |-> element]
          ELSE IF Done(n.d)
               THEN DecodeLoop(original, allowed, i + 1,
                               Append(element, GetDecodedCharacter(n.d)),
                               FALSE, n.d)
               ELSE DecodeLoop(original, allowed, i + 1, element, TRUE, n.d))
      ELSE IF c = Ch.percent THEN
        DecodeLoop(original, allowed, i + 1, element, TRUE, NewDecoder)
      ELSE IF Contains(allowed, c) THEN
        DecodeLoop(original, allowed, i + 1, Append(element, c),
                   FALSE, pecDecoder)
      ELSE [ok |-> FALSE, element |-> element]

DecodeElement(element, allowedCharacters) ==
    DecodeLoop(element, allowedCharacters, 1, <<>>, FALSE, NewDecoder)

\* the locals of DecodeElement when its loop starts
DecodeElementLocals ==
    [element |-> <<>>, decodingPec |-> FALSE, pecDecoder |-> NewDecoder,
     failed |-> FALSE]

\* one iteration of the loop of DecodeElement on the locals l; failed
\* stands for "return false"
DecodeElementStep(l, c, allowedCharacters) ==
    IF l.decodingPec THEN
      Bind(NextEncodedCharacter(l.pecDecoder, c), LAMBDA n :
        IF ~n.ok THEN [l EXCEPT !.pecDecoder = n.d, !.failed = TRUE]
        ELSE IF Done(n.d)
        THEN [l EXCEPT !.pecDecoder = n.d, !.decodingPec = FALSE,
                       !.element = Append(l.element,
                                          GetDecodedCharacter(n.d))]
        ELSE [l EXCEPT !.pecDecoder = n.d])
    ELSE IF c = Ch.percent
    THEN [l EXCEPT !.decodingPec = TRUE, !.pecDecoder = NewDecoder]
    ELSE IF Contains(allowedCharacters, c)
    THEN [l EXCEPT !.element = Append(l.element, c)]
    ELSE [l EXCEPT !.failed = TRUE]

DecodeQueryOrFragment(queryOrFragment) ==
    DecodeElement(queryOrFragment, QUERY_OR_FRAGMENT_NOT_PCT_ENCODED)

(***************************************************************************)
(* ParseUint16: returns the bool result and the number written (the old    *)
(* number when the call fails).                                            *)
(***************************************************************************)
RECURSIVE ParseUint16Loop(_, _, _)
\* the range check lets a seventeenth bit through
ParseUint16Loop_SeventeenBits(numberString, i, numberIn32bits) ==
    IF i > Len(numberString) THEN [ok |-> TRUE, number |-> numberIn32bits]
    ELSE LET c == numberString[i] IN
      IF c < Ch.zero \/ c > Ch.nine THEN [ok |-> FALSE, number |-> 0]
      ELSE LET n == numberIn32bits * 10 + (c - Ch.zero) IN
           IF n \div 131072 # 0 THEN [ok |-> FALSE, number |-> 0]
           ELSE ParseUint16Loop(numberString, i + 1, n)

ParseUint16Loop(numberString, i, numberIn32bits) ==
    IF i > Len(numberString) THEN [ok |-> TRUE, number |-> numberIn32bits]
    ELSE LET c == numberString[i] IN
      IF c < Ch.zero \/ c > Ch.nine THEN [ok |-> FALSE, number |-> 0]
      \* numberIn32bits is at most 65535 here, so the uint32_t cannot wrap
      ELSE LET n == numberIn32bits * 10 + (c - Ch.zero) IN
           IF n \div 65536 # 0 THEN [ok |-> FALSE, number |-> 0]
           ELSE ParseUint16Loop(numberString, i + 1, n)

ParseUint16(numberString, number) ==
    Bind(ParseUint16Loop(numberString, 1, 0), LAMBDA r :
      IF r.ok THEN [ok |-> TRUE, number |-> r.number % 65536]
      ELSE [ok |-> FALSE, number |-> number])

(***************************************************************************)
(* ValidateOctet, ValidateIpv4Adress, ValidateIpv6Address.                 *)
(***************************************************************************)
RECURSIVE ValidateOctetLoop(_, _, _)
ValidateOctetLoop(octetString, i, octet) ==
    IF i > Len(octetString) THEN octet <= 255
    ELSE IF Contains(DIGIT, octetString[i])
    THEN ValidateOctetLoop(octetString, i + 1,
                           octet * 10 + (octetString[i] - Ch.zero))
    ELSE FALSE

ValidateOctet(octetString) == ValidateOctetLoop(octetString, 1, 0)

\* one iteration of the switch of ValidateIpv4Adress on the locals r; failed
\* stands for "return false"
Ipv4Step(r, c) ==
    IF r.state = 0 THEN
      IF Contains(DIGIT, c)
      THEN [r EXCEPT !.octetBuffer = Append(r.octetBuffer, c), !.state = 1]
      ELSE [r EXCEPT !.failed = TRUE]
    ELSE
      IF c = Ch.dot THEN
        IF r.numGroups >= 4 THEN [r EXCEPT !.failed = TRUE]
        ELSE IF ~ValidateOctet(r.octetBuffer) THEN [r EXCEPT !.failed = TRUE]
        ELSE [r EXCEPT !.numGroups = r.numGroups + 1, !.octetBuffer = <<>>,
                       !.state = 0]
      ELSE IF Contains(DIGIT, c)
      THEN [r EXCEPT !.octetBuffer = Append(r.octetBuffer, c)]
      ELSE [r EXCEPT !.failed = TRUE]

\* the iterations of the loop of ValidateIpv4Adress for the characters
\* first..last of the address, from the locals r: the characters of the
\* first half, then those of the second half; no iteration runs once one
\* has returned false
RECURSIVE ValidateIpv4Loop(_, _, _, _)
ValidateIpv4Loop(address, first, last, r) ==
    IF r.failed \/ first > last THEN r
    ELSE IF first = last THEN Ipv4Step(r, address[first])
    ELSE Bind(ValidateIpv4Loop(address, first, (first + last) \div 2, r),
           LAMBDA n :
           ValidateIpv4Loop(address, (first + last) \div 2 + 1, last, n))

ValidateIpv4Adress(address) ==
    Bind(ValidateIpv4Loop(address, 1, Len(address),
                          [state |-> 0, numGroups |-> 0, octetBuffer |-> <<>>,
                           failed |-> FALSE]),
      LAMBDA r :
      IF r.failed THEN FALSE
      ELSE IF r.octetBuffer # <<>>
      THEN ValidateOctet(r.octetBuffer) /\ r.numGroups + 1 = 4
      ELSE r.numGroups = 4)

\* one iteration of the switch of ValidateIpv6Address; failed stands for
\* "return false"
Ipv6Step(r, c) ==
    LET fail == [r EXCEPT !.failed = TRUE]
        digit(next) ==
            IF r.numDigits + 1 > 4 THEN fail
            ELSE [r EXCEPT !.numDigits = r.numDigits + 1, !.state = next,
                           !.potentialIpv4AddressStart = r.position]
        hex(next) ==
            IF r.numDigits + 1 > 4 THEN fail
            ELSE [r EXCEPT !.numDigits = r.numDigits + 1, !.state = next]
        doubleColon ==
            IF r.doubleColonEncountered THEN fail
            ELSE [r EXCEPT !.doubleColonEncountered = TRUE,
                           !.state = "AFTER_COLON_EXPECT_GROUP_OR_IPV4"]
    IN
    CASE r.state = "NO_GROUPS_YET" ->
           IF c = Ch.colon THEN [r EXCEPT !.state = "COLON_BUT_NO_GROUPS_YET"]
           ELSE IF Contains(DIGIT, c)
           THEN [r EXCEPT !.potentialIpv4AddressStart = r.position,
                          !.numDigits = 1,
                          !.state = "IN_GROUP_COULD_BE_IPV4"]
           ELSE IF Contains(HEXDIG, c)
           THEN [r EXCEPT !.numDigits = 1, !.state = "IN_GROUP_NOT_IPV4"]
           ELSE fail
      [] r.state = "COLON_BUT_NO_GROUPS_YET" ->
           IF c = Ch.colon THEN doubleColon ELSE r
      [] r.state = "AFTER_COLON_EXPECT_GROUP_OR_IPV4" ->
           IF Contains(DIGIT, c) THEN digit("IN_GROUP_COULD_BE_IPV4")
           ELSE IF Contains(HEXDIG, c) THEN hex("IN_GROUP_NOT_IPV4")
           ELSE fail
      [] r.state = "IN_GROUP_NOT_IPV4" ->
           IF c = Ch.colon
           THEN [r EXCEPT !.numDigits = 0, !.numGroups = r.numGroups + 1,
                          !.state = "COLON_AFTER_GROUP"]
           ELSE IF Contains(HEXDIG, c) THEN hex("IN_GROUP_NOT_IPV4")
           ELSE fail
      [] r.state = "IN_GROUP_COULD_BE_IPV4" ->
           IF c = Ch.colon
           THEN [r EXCEPT !.numDigits = 0, !.numGroups = r.numGroups + 1,
                          !.state = "AFTER_COLON_EXPECT_GROUP_OR_IPV4"]
           ELSE IF c = Ch.dot
           THEN [r EXCEPT !.ipv4AddressEncountered = TRUE]
           ELSE IF Contains(DIGIT, c) THEN hex("IN_GROUP_COULD_BE_IPV4")
           ELSE IF Contains(HEXDIG, c) THEN hex("IN_GROUP_NOT_IPV4")
           ELSE fail
      [] r.state = "COLON_AFTER_GROUP" ->
           IF c = Ch.colon THEN doubleColon
           ELSE IF Contains(DIGIT, c) THEN digit("IN_GROUP_COULD_BE_IPV4")
           ELSE IF Contains(HEXDIG, c) THEN hex("IN_GROUP_NOT_IPV4")
           ELSE fail

\* the iterations of the loop of ValidateIpv6Address for the characters
\* first..last of the address, from the locals r (r.position = first - 1):
\* the characters of the first half, then those of the second half; no
\* iteration runs once one has returned false or has found an IPv4 part
RECURSIVE Ipv6Loop(_, _, _, _)
Ipv6Loop(address, first, last, r) ==
    IF r.failed \/ r.ipv4AddressEncountered \/ first > last THEN r
    ELSE IF first = last
    THEN Bind(Ipv6Step(r, address[r.position + 1]), LAMBDA n :
           IF n.failed \/ n.ipv4AddressEncountered THEN n
           ELSE [n EXCEPT !.position = n.position + 1])
    ELSE Bind(Ipv6Loop(address, first, (first + last) \div 2, r), LAMBDA n :
           Ipv6Loop(address, (first + last) \div 2 + 1, last, n))

ValidateIpv6Address(address) ==
    Bind(Ipv6Loop(address, 1, Len(address),
                 [state |-> "NO_GROUPS_YET", numGroups |-> 0, numDigits |-> 0,
                  doubleColonEncountered |-> FALSE,
                  potentialIpv4AddressStart |-> 0, position |-> 0,
                  ipv4AddressEncountered |-> FALSE, failed |-> FALSE]),
      LAMBDA r :
      LET inGroup ==
              r.state \in {"IN_GROUP_NOT_IPV4", "IN_GROUP_COULD_BE_IPV4"}
          groups1 == IF inGroup THEN r.numGroups + 1 ELSE r.numGroups
          groups2 == IF r.ipv4AddressEncountered THEN groups1 + 2 ELSE groups1
      IN
      IF r.failed THEN FALSE
      ELSE IF r.position = Len(address)
              /\ r.state \in {"COLON_BUT_NO_GROUPS_YET",
                              "AFTER_COLON_EXPECT_GROUP_OR_IPV4",
                              "COLON_AFTER_GROUP"}
      THEN FALSE
      ELSE IF r.ipv4AddressEncountered
              /\ ~ValidateIpv4Adress(
                     SubstrFrom(address, r.potentialIpv4AddressStart))
      THEN FALSE
      ELSE IF r.doubleColonEncountered THEN groups2 <= 7
      ELSE groups2 = 8)

(***************************************************************************)
(* FailsMatch with the LegalSchemeCheckStrategy strategy.                  *)
(***************************************************************************)
\* the first character is checked like the later ones
LegalSchemeCheckStrategy_FirstLikeRest(isFirstCharacter, c, end) ==
    IF end THEN ~isFirstCharacter
    ELSE Contains(SCHEME_NOT_FIRST, c)

\* the strategy's answer for character c; isFirstCharacter is its captured
\* flag before the call
LegalSchemeCheckStrategy(isFirstCharacter, c, end) ==
    IF end THEN ~isFirstCharacter
    ELSE IF isFirstCharacter THEN Contains(ALPHA, c)
    ELSE Contains(SCHEME_NOT_FIRST, c)

RECURSIVE FailsMatchLoop(_, _, _)
FailsMatchLoop(candidate, i, isFirstCharacter) ==
    IF i > Len(candidate)
    THEN ~LegalSchemeCheckStrategy(isFirstCharacter, Ch.space, TRUE)
    ELSE IF ~LegalSchemeCheckStrategy(isFirstCharacter, candidate[i], FALSE)
    THEN TRUE
    ELSE FailsMatchLoop(candidate, i + 1, FALSE)

FailsMatch(candidate) == FailsMatchLoop(candidate, 1, TRUE)

(***************************************************************************)
(* Uri::Impl: the properties of a Uri and the state of a new one.          *)
(***************************************************************************)
NewUri == [scheme |-> <<>>, userInfo |-> <<>>, host |-> <<>>,
           hasPort |-> FALSE, port |-> 0, path |-> <<>>,
           hasQuery |-> FALSE, query |-> <<>>,
           hasFragment |-> FALSE, fragment |-> <<>>]

HasAuthority(u) == u.host # <<>> \/ u.userInfo # <<>> \/ u.hasPort

\* the splitting loop of ParsePath
RECURSIVE SplitPath(_)
\* the split that leaves out an empty last segment
SplitPath_DropsEmptyLast(pathString) ==
    LET pathDelimiter == Find(pathString, Ch.slash) IN
    IF pathDelimiter = 0
    THEN IF pathString = <<>> THEN <<>> ELSE <<pathString>>
    ELSE <<SubstrTo(pathString, pathDelimiter - 1)>>
         \o SplitPath(SubstrFrom(pathString, pathDelimiter))

SplitPath(pathString) ==
    LET pathDelimiter == Find(pathString, Ch.slash) IN
    IF pathDelimiter = 0 THEN <<pathString>>
    ELSE <<SubstrTo(pathString, pathDelimiter - 1)>>
         \o SplitPath(SubstrFrom(pathString, pathDelimiter))

\* the decoding loop of ParsePath: stops at the first segment that fails
RECURSIVE DecodeSegments(_, _)
DecodeSegments(path, i) ==
    IF i > Len(path) THEN [ok |-> TRUE, path |-> path]
    ELSE Bind(DecodeElement(path[i], PCHAR_NOT_PCT_ENCODED), LAMBDA d :
           LET p == [path EXCEPT ![i] = d.element]
           IN IF d.ok THEN DecodeSegments(p, i + 1)
              ELSE [ok |-> FALSE, path |-> p])

ParsePath(u, pathString) ==
    LET split == IF pathString = <<Ch.slash>> THEN << <<>> >>
                 ELSE IF pathString # <<>> THEN SplitPath(pathString)
                 ELSE <<>>
    IN Bind(DecodeSegments(split, 1), LAMBDA d :
         [ok |-> d.ok, uri |-> [u EXCEPT !.path = d.path]])

\* case NOT_IP_LITERAL of the host state machine
HostStepNotIpLiteral(r, c) ==
    IF c = Ch.percent
    THEN [r EXCEPT !.pecDecoder = NewDecoder,
                   !.state = "PERCENT_ENCODED_CHARACTER"]
    ELSE IF c = Ch.colon THEN [r EXCEPT !.state = "PORT"]
    ELSE IF Contains(REG_NAME_NOT_PCT_ENCODED, c)
    THEN [r EXCEPT !.host = Append(r.host, c)]
    ELSE [r EXCEPT !.failed = TRUE]

\* the IPV6_ADDRESS case storing the address lower-cased
HostStepIpv6Address_LowerCased(r, c) ==
    IF c = Ch.rbracket THEN
      IF ~ValidateIpv6Address(r.host) THEN [r EXCEPT !.failed = TRUE]
      ELSE [r EXCEPT !.state = "GARBAGE_CHECK"]
    ELSE [r EXCEPT !.host = Append(r.host, ToLower(c))]

\* case IPV6_ADDRESS of the host state machine
HostStepIpv6Address(r, c) ==
    IF c = Ch.rbracket THEN
      IF ~ValidateIpv6Address(r.host) THEN [r EXCEPT !.failed = TRUE]
      ELSE [r EXCEPT !.state = "GARBAGE_CHECK"]
    ELSE [r EXCEPT !.host = Append(r.host, c)]

\* one iteration of the host state machine of ParseAuthority; failed stands
\* for "return false"; FIRST_CHARACTER and IP_LITERAL fall through to the
\* next case when they do not consume the character
HostStep(r, c) ==
    CASE r.state = "FIRST_CHARACTER" ->
           IF c = Ch.lbracket THEN [r EXCEPT !.state = "IP_LITERAL"]
           ELSE HostStepNotIpLiteral([r EXCEPT !.state = "NOT_IP_LITERAL",
                                               !.hostIsRegName = TRUE], c)
      [] r.state = "NOT_IP_LITERAL" -> HostStepNotIpLiteral(r, c)
      [] r.state = "PERCENT_ENCODED_CHARACTER" ->
           Bind(NextEncodedCharacter(r.pecDecoder, c), LAMBDA n :
             IF ~n.ok THEN [r EXCEPT !.pecDecoder = n.d, !.failed = TRUE]
             ELSE IF Done(n.d)
             THEN [r EXCEPT !.pecDecoder = n.d, !.state = "FIRST_CHARACTER",
                            !.host = Append(r.host, GetDecodedCharacter(n.d))]
             ELSE [r EXCEPT !.pecDecoder = n.d])
      [] r.state = "IP_LITERAL" ->
           IF c = Ch.v
           THEN [r EXCEPT !.host = Append(r.host, c),
                          !.state = "IPV_FUTURE_NUMBER"]
           ELSE HostStepIpv6Address([r EXCEPT !.state = "IPV6_ADDRESS"], c)
      [] r.state = "IPV6_ADDRESS" -> HostStepIpv6Address(r, c)
      [] r.state = "IPV_FUTURE_NUMBER" ->
           IF c = Ch.dot
           THEN [r EXCEPT !.state = "IPV_FUTURE_BODY",
                          !.host = Append(r.host, c)]
           ELSE IF ~Contains(HEXDIG, c) THEN [r EXCEPT !.failed = TRUE]
           ELSE [r EXCEPT !.host = Append(r.host, c)]
      [] r.state = "IPV_FUTURE_BODY" ->
           IF c = Ch.rbracket THEN [r EXCEPT !.state = "GARBAGE_CHECK"]
           ELSE IF ~Contains(IPV_FUTURE_LAST_PART, c)
           THEN [r EXCEPT !.failed = TRUE]
           ELSE [r EXCEPT !.host = Append(r.host, c)]
      [] r.state = "GARBAGE_CHECK" ->
           IF c = Ch.colon THEN [r EXCEPT !.state = "PORT"]
           ELSE [r EXCEPT !.failed = TRUE]
      [] r.state = "PORT" ->
           [r EXCEPT !.portString = Append(r.portString, c)]

\* the iterations of the loop of ParseAuthority for the characters
\* first..last of the host and port, from the locals r: the characters of
\* the first half, then those of the second half; no iteration runs once
\* one has returned false
RECURSIVE HostLoop(_, _, _, _)
HostLoop(hostPortString, first, last, r) ==
    IF r.failed \/ first > last THEN r
    ELSE IF first = last THEN HostStep(r, hostPortString[first])
    ELSE Bind(HostLoop(hostPortString, first, (first + last) \div 2, r),
           LAMBDA n :
           HostLoop(hostPortString, (first + last) \div 2 + 1, last, n))

\* the part of ParseAuthority after the userinfo has been split off
ParseHostPort(u, hostPortString) ==
    Bind(HostLoop(hostPortString, 1, Len(hostPortString),
                 [state |-> "FIRST_CHARACTER", host |-> <<>>,
                  pecDecoder |-> NewDecoder, hostIsRegName |-> FALSE,
                  portString |-> <<>>, failed |-> FALSE]),
      LAMBDA r :
      LET u1 == [u EXCEPT !.host = r.host]
          u2 == IF r.hostIsRegName
                THEN [u1 EXCEPT
                        !.host = NormalizeCaseInsensitiveString(r.host)]
                ELSE u1
      IN
      IF r.failed THEN [ok |-> FALSE, uri |-> u1]
      ELSE IF r.state \notin {"FIRST_CHARACTER", "NOT_IP_LITERAL",
                              "GARBAGE_CHECK", "PORT"}
      THEN [ok |-> FALSE, uri |-> u1]
      ELSE IF r.portString = <<>>
      THEN [ok |-> TRUE, uri |-> [u2 EXCEPT !.hasPort = FALSE]]
      ELSE Bind(ParseUint16(r.portString, u.port), LAMBDA pn :
             IF ~pn.ok THEN [ok |-> FALSE, uri |-> u2]
             ELSE [ok |-> TRUE, uri |-> [u2 EXCEPT !.port = pn.number,
                                                   !.hasPort = TRUE]]))

ParseAuthority(u, authorityString) ==
    Bind(Find(authorityString, Ch.at), LAMBDA userInfoDelimiter :
      Bind(IF userInfoDelimiter = 0 THEN [ok |-> TRUE, element |-> <<>>]
           ELSE DecodeElement(
                    SubstrTo(authorityString, userInfoDelimiter - 1),
                    USER_INFO_NOT_PCT_ENCODED),
        LAMBDA d :
        IF ~d.ok
        THEN [ok |-> FALSE, uri |-> [u EXCEPT !.userInfo = d.element]]
        ELSE ParseHostPort([u EXCEPT !.userInfo = d.element],
                           SubstrFrom(authorityString, userInfoDelimiter))))

\* returns the bool result, the Uri and the rest of the string
ParseScheme(u, uriString) ==
    LET slash == Find(uriString, Ch.slash)
        authorityOrPathDelimiterStart ==
            IF slash = 0 THEN Len(uriString) ELSE slash - 1
        schemeEnd ==
            Find(SubstrTo(uriString, authorityOrPathDelimiterStart), Ch.colon)
        scheme == SubstrTo(uriString, schemeEnd - 1)
    IN
    IF schemeEnd = 0
    THEN [ok |-> TRUE, uri |-> [u EXCEPT !.scheme = <<>>], rest |-> uriString]
    ELSE IF FailsMatch(scheme)
    THEN [ok |-> FALSE, uri |-> [u EXCEPT !.scheme = scheme], rest |-> <<>>]
    ELSE [ok |-> TRUE,
          uri |-> [u EXCEPT !.scheme = NormalizeCaseInsensitiveString(scheme)],
          rest |-> SubstrFrom(uriString, schemeEnd)]

\* userInfo, host and hasPort survive a string that has no authority
SplitAuthorityFromPathAndParseIt_KeepAuthority(u, authorityAndPathString) ==
    LET u0 == [u EXCEPT !.port = 0]
        stripped == SubstrFrom(authorityAndPathString, 2)
        slash == Find(stripped, Ch.slash)
        authorityEnd == IF slash = 0 THEN Len(stripped) ELSE slash - 1
    IN
    IF SubstrTo(authorityAndPathString, 2) = <<Ch.slash, Ch.slash>>
    THEN Bind(ParseAuthority(u0, SubstrTo(stripped, authorityEnd)),
           LAMBDA pa :
           [ok |-> pa.ok, uri |-> pa.uri,
            pathString |-> SubstrFrom(stripped, authorityEnd)])
    ELSE [ok |-> TRUE, uri |-> u0, pathString |-> authorityAndPathString]

\* returns the bool result, the Uri and the path string
SplitAuthorityFromPathAndParseIt(u, authorityAndPathString) ==
    LET u0 == [u EXCEPT !.port = 0]
        stripped == SubstrFrom(authorityAndPathString, 2)
        slash == Find(stripped, Ch.slash)
        authorityEnd == IF slash = 0 THEN Len(stripped) ELSE slash - 1
    IN
    IF SubstrTo(authorityAndPathString, 2) = <<Ch.slash, Ch.slash>>
    THEN Bind(ParseAuthority(u0, SubstrTo(stripped, authorityEnd)),
           LAMBDA pa :
           [ok |-> pa.ok, uri |-> pa.uri,
            pathString |-> SubstrFrom(stripped, authorityEnd)])
    ELSE [ok |-> TRUE,
          uri |-> [u0 EXCEPT !.hasPort = FALSE, !.userInfo = <<>>,
                             !.host = <<>>],
          pathString |-> authorityAndPathString]

\* the default path given whatever the host
SetDefaultPathIfAuthorityPresentAndPathEmpty_IgnoresHost(u) ==
    IF u.path = <<>> THEN [u EXCEPT !.path = << <<>> >>] ELSE u

SetDefaultPathIfAuthorityPresentAndPathEmpty(u) ==
    IF u.host # <<>> /\ u.path = <<>> THEN [u EXCEPT !.path = << <<>> >>]
    ELSE u

\* returns the bool result, the Uri and the rest of the string
ParseFragment(u, queryAndOrFragment) ==
    LET fragmentDelimiter == Find(queryAndOrFragment, Ch.hash)
        raw == IF fragmentDelimiter = 0 THEN <<>>
               ELSE SubstrFrom(queryAndOrFragment, fragmentDelimiter)
    IN Bind(DecodeQueryOrFragment(raw), LAMBDA d :
         [ok |-> d.ok,
          uri |-> [u EXCEPT !.hasFragment = (fragmentDelimiter # 0),
                            !.fragment = d.element],
          rest |-> IF fragmentDelimiter = 0 THEN queryAndOrFragment
                   ELSE SubstrTo(queryAndOrFragment, fragmentDelimiter - 1)])

ParseQuery(u, queryWithDelimiter) ==
    LET hasQuery == queryWithDelimiter # <<>>
    IN Bind(DecodeQueryOrFragment(IF hasQuery
                                  THEN SubstrFrom(queryWithDelimiter, 1)
                                  ELSE <<>>),
         LAMBDA d :
         [ok |-> d.ok,
          uri |-> [u EXCEPT !.hasQuery = hasQuery, !.query = d.element]])

(***************************************************************************)
(* Uri::ParseFromString on a Uri in state u: the bool result and the state *)
(* the call leaves the Uri in.                                             *)
(***************************************************************************)
ParseFromString(u, uriString) ==
    Bind(ParseScheme(u, uriString), LAMBDA ps :
      IF ~ps.ok THEN [ok |-> FALSE, uri |-> ps.uri]
      ELSE
      LET pathEnd == FindFirstOf(ps.rest, {Ch.question, Ch.hash})
          authorityAndPathString ==
              IF pathEnd = 0 THEN ps.rest ELSE SubstrTo(ps.rest, pathEnd - 1)
          queryAndOrFragment ==
              SubstrFrom(ps.rest, Len(authorityAndPathString))
      IN
      Bind(SplitAuthorityFromPathAndParseIt(ps.uri, authorityAndPathString),
        LAMBDA sa :
        IF ~sa.ok THEN [ok |-> FALSE, uri |-> sa.uri]
        ELSE
        Bind(ParsePath(sa.uri, sa.pathString), LAMBDA pp :
          IF ~pp.ok THEN [ok |-> FALSE, uri |-> pp.uri]
          ELSE
          Bind(ParseFragment(
                   SetDefaultPathIfAuthorityPresentAndPathEmpty(pp.uri),
                   queryAndOrFragment),
            LAMBDA pf :
            IF ~pf.ok THEN [ok |-> FALSE, uri |-> pf.uri]
            ELSE
            Bind(ParseQuery(pf.uri, pf.rest), LAMBDA pq :
              [ok |-> pq.ok, uri |-> pq.uri])))))

(***************************************************************************)
(* Path normalization.                                                     *)
(***************************************************************************)
DotSegment == <<Ch.dot>>

DotDotSegment == <<Ch.dot, Ch.dot>>

IsPathAbsolute(path) == path # <<>> /\ path[1] = <<>>

\* the last segment can always be removed
CanNavigatePathUpOneLevel_Always(path) == TRUE

CanNavigatePathUpOneLevel(path) == ~IsPathAbsolute(path) \/ Len(path) > 1

ContainsRelativePath(u) == ~IsPathAbsolute(u.path)

\* a ".." segment that cannot be applied is kept in the path
NavigateUp_KeepDotDot(path) ==
    IF path # <<>> /\ CanNavigatePathUpOneLevel(path)
    THEN SubSeq(path, 1, Len(path) - 1)
    ELSE Append(path, DotDotSegment)

\* what NormalizePath does to the rebuilt path on a ".." segment
NavigateUp(path) ==
    IF path # <<>> /\ CanNavigatePathUpOneLevel(path)
    THEN SubSeq(path, 1, Len(path) - 1)
    ELSE path

\* the directory marker is added without looking at the last segment
MarkDirectory_NoBackCheck(path, atDirectoryLevel) ==
    IF atDirectoryLevel /\ path # <<>> THEN Append(path, <<>>) ELSE path

\* what NormalizePath does to the rebuilt path after the loop
MarkDirectory(path, atDirectoryLevel) ==
    IF atDirectoryLevel /\ path # <<>> /\ path[Len(path)] # <<>>
    THEN Append(path, <<>>)
    ELSE path

\* the loop of Impl::NormalizePath over oldPath, from segment i on
RECURSIVE NormalizeLoop(_, _, _, _)
NormalizeLoop(oldPath, i, path, atDirectoryLevel) ==
    IF i > Len(oldPath) THEN MarkDirectory(path, atDirectoryLevel)
    ELSE LET segment == oldPath[i] IN
      IF segment = DotSegment
      THEN NormalizeLoop(oldPath, i + 1, path, TRUE)
      ELSE IF segment = DotDotSegment
      THEN NormalizeLoop(oldPath, i + 1, NavigateUp(path), TRUE)
      ELSE NormalizeLoop(oldPath, i + 1,
                         IF ~atDirectoryLevel \/ segment # <<>>
                         THEN Append(path, segment)
                         ELSE path,
                         segment = <<>>)

NormalizePath(path) == NormalizeLoop(path, 1, <<>>, FALSE)

(***************************************************************************)
(* operator== and operator!=.                                              *)
(***************************************************************************)
\* the presence of the query is compared too
UriEquals_ComparesHasQuery(a, b) ==
    /\ a.scheme = b.scheme
    /\ a.userInfo = b.userInfo
    /\ a.host = b.host
    /\ \/ ~a.hasPort /\ ~b.hasPort
       \/ a.hasPort /\ b.hasPort /\ a.port = b.port
    /\ a.path = b.path
    /\ a.hasQuery = b.hasQuery
    /\ a.query = b.query
    /\ a.fragment = b.fragment

UriEquals(a, b) ==
    /\ a.scheme = b.scheme
    /\ a.userInfo = b.userInfo
    /\ a.host = b.host
    /\ \/ ~a.hasPort /\ ~b.hasPort
       \/ a.hasPort /\ b.hasPort /\ a.port = b.port
    /\ a.path = b.path
    /\ a.query = b.query
    /\ a.fragment = b.fragment

UriNotEquals(a, b) == ~UriEquals(a, b)

(***************************************************************************)
(* Resolve and the copy helpers it uses.                                   *)
(***************************************************************************)
CopyScheme(t, other) == [t EXCEPT !.scheme = other.scheme]

CopyAuthority(t, other) ==
    [t EXCEPT !.host = other.host, !.userInfo = other.userInfo,
              !.hasPort = other.hasPort, !.port = other.port]

CopyPath(t, other) == [t EXCEPT !.path = other.path]

CopyAndNormalizePath(t, other) ==
    [t EXCEPT !.path = NormalizePath(CopyPath(t, other).path)]

CopyQuery(t, other) == [t EXCEPT !.query = other.query]

CopyFragment(t, other) == [t EXCEPT !.fragment = other.fragment]

\* the last segment of the base path is dropped even when it is the only one
MergePaths_AlwaysDrop(basePath, referencePath) ==
    NormalizePath((IF Len(basePath) > 0
                   THEN SubSeq(basePath, 1, Len(basePath) - 1)
                   ELSE basePath) \o referencePath)

\* "T.path = merge(Base.path, R.path)" followed by target.NormalizePath()
MergePaths(basePath, referencePath) ==
    NormalizePath((IF Len(basePath) > 1
                   THEN SubSeq(basePath, 1, Len(basePath) - 1)
                   ELSE basePath) \o referencePath)

Resolve(base, relativeReference) ==
    LET target == NewUri
        r == relativeReference
        withFragment(t) == CopyFragment(t, r)
    IN
    IF r.scheme # <<>>
    THEN withFragment(
           CopyQuery(CopyAndNormalizePath(
             CopyAuthority(CopyScheme(target, r), r), r), r))
    ELSE IF r.host # <<>>
    THEN withFragment(CopyScheme(
           CopyQuery(CopyAndNormalizePath(
             CopyAuthority(target, r), r), r), base))
    ELSE IF r.path = <<>>
    THEN withFragment(CopyScheme(CopyAuthority(
           IF r.query # <<>>
           THEN CopyQuery([target EXCEPT !.path = base.path], r)
           ELSE CopyQuery([target EXCEPT !.path = base.path], base),
           base), base))
    ELSE IF IsPathAbsolute(r.path)
    THEN withFragment(CopyScheme(CopyAuthority(
           CopyQuery(CopyAndNormalizePath(target, r), r), base), base))
    ELSE withFragment(CopyScheme(CopyAuthority(
           CopyQuery([target EXCEPT !.path = MergePaths(base.path, r.path)],
                     r), base), base))

(***************************************************************************)
(* GenerateString.                                                         *)
(***************************************************************************)
\* operator<< of a uint16_t: its decimal digits
RECURSIVE ToDecimal(_)
ToDecimal(n) ==
    IF n < 10 THEN <<Ch.zero + n>>
    ELSE Append(ToDecimal(n \div 10), Ch.zero + (n % 10))

\* the loop of GenerateString over the path segments
RECURSIVE JoinPath(_, _)
JoinPath(path, i) ==
    IF i > Len(path) THEN <<>>
    ELSE path[i] \o (IF i < Len(path) THEN <<Ch.slash>> ELSE <<>>)
         \o JoinPath(path, i + 1)

\* the path as GenerateString writes it
PathString(path) ==
    (IF IsPathAbsolute(path) /\ Len(path) = 1 THEN <<Ch.slash>> ELSE <<>>)
    \o JoinPath(path, 1)

\* the query is written when its text is not empty
GenerateString_QueryIfNotEmpty(u) ==
    (IF u.scheme # <<>> THEN u.scheme \o <<Ch.colon>> ELSE <<>>)
    \o (IF HasAuthority(u)
        THEN <<Ch.slash, Ch.slash>>
             \o (IF u.userInfo # <<>> THEN u.userInfo \o <<Ch.at>> ELSE <<>>)
             \o (IF u.host # <<>>
                 THEN IF ValidateIpv6Address(u.host)
                      THEN <<Ch.lbracket>> \o u.host \o <<Ch.rbracket>>
                      ELSE u.host
                 ELSE <<>>)
             \o (IF u.hasPort THEN <<Ch.colon>> \o ToDecimal(u.port)
                 ELSE <<>>)
        ELSE <<>>)
    \o PathString(u.path)
    \o (IF u.query # <<>> THEN <<Ch.question>> \o u.query ELSE <<>>)
    \o (IF u.hasFragment THEN <<Ch.hash>> \o u.fragment ELSE <<>>)

GenerateString(u) ==
    (IF u.scheme # <<>> THEN u.scheme \o <<Ch.colon>> ELSE <<>>)
    \o (IF HasAuthority(u)
        THEN <<Ch.slash, Ch.slash>>
             \o (IF u.userInfo # <<>> THEN u.userInfo \o <<Ch.at>> ELSE <<>>)
             \o (IF u.host # <<>>
                 THEN IF ValidateIpv6Address(u.host)
                      THEN <<Ch.lbracket>> \o u.host \o <<Ch.rbracket>>
                      ELSE u.host
                 ELSE <<>>)
             \o (IF u.hasPort THEN <<Ch.colon>> \o ToDecimal(u.port)
                 ELSE <<>>)
        ELSE <<>>)
    \o PathString(u.path)
    \o (IF u.hasQuery THEN <<Ch.question>> \o u.query ELSE <<>>)
    \o (IF u.hasFragment THEN <<Ch.hash>> \o u.fragment ELSE <<>>)

(***************************************************************************)
(* The setters.                                                            *)
(***************************************************************************)
SetScheme(u, scheme) == [u EXCEPT !.scheme = scheme]

SetUserInfo(u, userInfo) == [u EXCEPT !.userInfo = userInfo]

SetHost(u, host) == [u EXCEPT !.host = host]

SetPort(u, port) == [u EXCEPT !.port = port, !.hasPort = TRUE]

ClearPort(u) == [u EXCEPT !.hasPort = FALSE]

SetPath(u, path) == [u EXCEPT !.path = path]

SetQuery(u, query) == [u EXCEPT !.query = query, !.hasQuery = TRUE]

ClearQuery(u) == [u EXCEPT !.hasQuery = FALSE]

SetFragment(u, fragment) ==
    [u EXCEPT !.fragment = fragment, !.hasFragment = TRUE]

ClearFragment(u) == [u EXCEPT !.hasFragment = FALSE]

(***************************************************************************)
(* The state: two Uri objects, and what the last calls were given and      *)
(* returned.                                                               *)
(***************************************************************************)
VARIABLES
    uri,      \* a Uri object
    prev,     \* the state of uri before the last call made on it
    arg,      \* the argument of the last ParseFromString or SetPath on uri
    ok,       \* what the last ParseFromString on uri returned
    ref,      \* a second Uri object
    refOk,    \* what the last ParseFromString on ref returned
    target,   \* the Uri the last Resolve returned
    text,     \* the string the last GenerateString returned
    cmp,      \* what the last uri == ref and the last uri != ref returned
    calls,    \* the names of the calls made so far
    walk,     \* a run of DecodeElement or of the host loop, byte by byte
    cs        \* a CharacterSet under construction

vars == <<uri, prev, arg, ok, ref, refOk, target, text, cmp, calls, walk, cs>>

Last == IF calls = <<>> THEN "Uri" ELSE calls[Len(calls)]

\* no routine is being run
NoWalk ==
    [routine |-> "none", input |-> <<>>, pos |-> 0, live |-> FALSE,
     locals |-> [pecDecoder |-> NewDecoder], returned |-> "no",
     fed |-> <<>>, accepted |-> 0, high |-> 0]

\* no CharacterSet is being constructed
NoCharacterSet ==
    [constructor |-> "none", first |-> 0, last |-> 0, c |-> 0,
     charactersInSet |-> {}, done |-> FALSE]

Init ==
    /\ uri = NewUri
    /\ prev = NewUri
    /\ arg = <<>>
    /\ ok = FALSE
    /\ ref = NewUri
    /\ refOk = FALSE
    /\ target = NewUri
    /\ text = <<>>
    /\ cmp = [eq |-> TRUE, ne |-> FALSE]
    /\ calls = <<>>
    /\ walk = NoWalk
    /\ cs = NoCharacterSet

\* a call on uri that returns nothing
Mutate(name, u) ==
    /\ uri' = u
    /\ prev' = uri
    /\ calls' = Append(calls, name)
    /\ UNCHANGED <<walk, cs, arg, ok, ref, refOk, target, text, cmp>>

CallParseFromString(s) ==
    /\ uri' = ParseFromString(uri, s).uri
    /\ ok' = ParseFromString(uri, s).ok
    /\ prev' = uri
    /\ arg' = s
    /\ calls' = Append(calls, "ParseFromString")
    /\ UNCHANGED <<walk, cs, ref, refOk, target, text, cmp>>

CallSetScheme(v) == Mutate("SetScheme", SetScheme(uri, v))

CallSetUserInfo(v) == Mutate("SetUserInfo", SetUserInfo(uri, v))

CallSetHost(v) == Mutate("SetHost", SetHost(uri, v))

CallSetPort(v) == Mutate("SetPort", SetPort(uri, v))

CallClearPort == Mutate("ClearPort", ClearPort(uri))

CallSetPath(p) ==
    /\ uri' = SetPath(uri, p)
    /\ prev' = uri
    /\ arg' = p
    /\ calls' = Append(calls, "SetPath")
    /\ UNCHANGED <<walk, cs, ok, ref, refOk, target, text, cmp>>

CallSetQuery(v) == Mutate("SetQuery", SetQuery(uri, v))

CallClearQuery == Mutate("ClearQuery", ClearQuery(uri))

CallSetFragment(v) == Mutate("SetFragment", SetFragment(uri, v))

CallClearFragment == Mutate("ClearFragment", ClearFragment(uri))

\* Uri::NormalizePath
CallNormalizePath ==
    Mutate("NormalizePath", [uri EXCEPT !.path = NormalizePath(uri.path)])

\* uri.GenerateString()
CallGenerateString ==
    /\ text' = GenerateString(uri)
    /\ calls' = Append(calls, "GenerateString")
    /\ UNCHANGED <<walk, cs, uri, prev, arg, ok, ref, refOk, target, cmp>>

\* ref.ParseFromString(s)
CallParseReference(s) ==
    /\ ref' = ParseFromString(ref, s).uri
    /\ refOk' = ParseFromString(ref, s).ok
    /\ calls' = Append(calls, "ParseReference")
    /\ UNCHANGED <<walk, cs, uri, prev, arg, ok, target, text, cmp>>

\* ref.ParseFromString(uri.GenerateString()), the string being in text
CallParseGenerated ==
    /\ ref' = ParseFromString(ref, text).uri
    /\ refOk' = ParseFromString(ref, text).ok
    /\ calls' = Append(calls, "ParseGenerated")
    /\ UNCHANGED <<walk, cs, uri, prev, arg, ok, target, text, cmp>>

\* target = uri.Resolve(ref)
CallResolve ==
    /\ target' = Resolve(uri, ref)
    /\ calls' = Append(calls, "Resolve")
    /\ UNCHANGED <<walk, cs, uri, prev, arg, ok, ref, refOk, text, cmp>>

\* uri == ref
CallEquals ==
    /\ cmp' = [cmp EXCEPT !.eq = UriEquals(uri, ref)]
    /\ calls' = Append(calls, "Equals")
    /\ UNCHANGED <<walk, cs, uri, prev, arg, ok, ref, refOk, target, text>>

\* uri != ref
CallNotEquals ==
    /\ cmp' = [cmp EXCEPT !.ne = UriNotEquals(uri, ref)]
    /\ calls' = Append(calls, "NotEquals")
    /\ UNCHANGED <<walk, cs, uri, prev, arg, ok, ref, refOk, target, text>>

\* target.GenerateString()
CallGenerateTarget ==
    /\ text' = GenerateString(target)
    /\ calls' = Append(calls, "GenerateTarget")
    /\ UNCHANGED <<walk, cs, uri, prev, arg, ok, ref, refOk, target, cmp>>

(***************************************************************************)
(* Inputs.                                                                 *)
(***************************************************************************)
\* the strings of at most n bytes over an alphabet
Strings(alphabet, n) == UNION {[1..k -> alphabet] : k \in 0..n}

\* every concatenation of one string of each set
Concat2(A, B) == {a \o b : a \in A, b \in B}

Segments == {<<>>, DotSegment, DotDotSegment, <<Ch.x>>, <<Ch.y>>}

Paths == Strings(Segments, MaxSegs)

(***************************************************************************)
(* SpecNormalize: SetPath on a new Uri, then NormalizePath twice.          *)
(***************************************************************************)
NextNormalize ==
    \/ /\ calls = <<>>
       /\ \E p \in Paths : CallSetPath(p)
    \/ /\ calls # <<>>
       /\ Len(calls) < 3
       /\ CallNormalizePath

SpecNormalize == Init /\ [][NextNormalize]_vars

(***************************************************************************)
(* RFC 3986 section 5.2.4, remove_dot_segments, on the path as a string.   *)
(***************************************************************************)
StartsWith(str, prefix) ==
    Len(str) >= Len(prefix) /\ SubSeq(str, 1, Len(prefix)) = prefix

\* the output buffer without its last segment and the "/" before it
RECURSIVE RemoveLastSegment(_)
RemoveLastSegment(output) ==
    IF output = <<>> THEN <<>>
    ELSE IF output[Len(output)] = Ch.slash
    THEN SubSeq(output, 1, Len(output) - 1)
    ELSE RemoveLastSegment(SubSeq(output, 1, Len(output) - 1))

RECURSIVE RemoveDotSegmentsLoop(_, _)
RemoveDotSegmentsLoop(input, output) ==
    LET sl == <<Ch.slash>>
        d == <<Ch.dot>>
        \* the end of the first segment: the next "/" after the first byte
        next == FindFrom(input, {Ch.slash}, 2)
        segEnd == IF next = 0 THEN Len(input) ELSE next - 1
    IN
    IF input = <<>> THEN output
    \* A
    ELSE IF StartsWith(input, d \o d \o sl)
    THEN RemoveDotSegmentsLoop(SubstrFrom(input, 3), output)
    ELSE IF StartsWith(input, d \o sl)
    THEN RemoveDotSegmentsLoop(SubstrFrom(input, 2), output)
    \* B
    ELSE IF StartsWith(input, sl \o d \o sl)
    THEN RemoveDotSegmentsLoop(SubstrFrom(input, 2), output)
    ELSE IF input = sl \o d
    THEN RemoveDotSegmentsLoop(sl, output)
    \* C
    ELSE IF StartsWith(input, sl \o d \o d \o sl)
    THEN RemoveDotSegmentsLoop(SubstrFrom(input, 3), RemoveLastSegment(output))
    ELSE IF input = sl \o d \o d
    THEN RemoveDotSegmentsLoop(sl, RemoveLastSegment(output))
    \* D
    ELSE IF input = d \/ input = d \o d
    THEN RemoveDotSegmentsLoop(<<>>, output)
    \* E
    ELSE RemoveDotSegmentsLoop(SubstrFrom(input, segEnd),
                               output \o SubstrTo(input, segEnd))

RemoveDotSegments(input) == RemoveDotSegmentsLoop(input, <<>>)

(***************************************************************************)
(* Claims on NormalizePath, under SpecNormalize.                           *)
(***************************************************************************)
Range(seq) == {seq[i] : i \in 1..Len(seq)}

\* C3: NormalizePath is idempotent: a second call in a row leaves the path
\* as the first call left it.
C3_NormalizePathIdempotent ==
    (/\ Len(calls) >= 2
     /\ calls[Len(calls)] = "NormalizePath"
     /\ calls[Len(calls) - 1] = "NormalizePath")
    => uri.path = prev.path

\* NormalizePath has run twice on a path whose dot segments it had to apply
C3_Witness ==
    /\ calls = <<"SetPath", "NormalizePath", "NormalizePath">>
    /\ DotDotSegment \in Range(arg)
    /\ DotSegment \in Range(arg)
    /\ uri.path # <<>>
    /\ uri.path # arg

\* C4: NormalizePath is RFC 3986 section 5.2.4: the path it leaves, joined
\* with '/', is remove_dot_segments of the path it was given, joined with
\* '/' (a path of one empty segment being "/", as GenerateString writes it).
C4_NormalizePathIsRemoveDotSegments ==
    Last = "NormalizePath"
    => PathString(uri.path) = RemoveDotSegments(PathString(prev.path))

\* C5: after NormalizePath no segment of the path is "." or "..".
C5_NoDotSegmentsAfterNormalizePath ==
    Last = "NormalizePath"
    => \A i \in 1..Len(uri.path) :
           uri.path[i] # DotSegment /\ uri.path[i] # DotDotSegment

\* NormalizePath has run on a path with both kinds of dot segment, one of
\* them a ".." it could not apply, and has left a path that is not empty
C5_Witness ==
    /\ calls = <<"SetPath", "NormalizePath">>
    /\ Len(arg) >= 3
    /\ arg[1] = DotDotSegment
    /\ DotSegment \in Range(arg)
    /\ uri.path # <<>>

(***************************************************************************)
(* SpecResolve: a base and a relative reference are parsed, the reference  *)
(* is resolved against the base and the target is generated.               *)
(***************************************************************************)
\* no scheme and authority, or "S://U@H:8"
BasePrefixes ==
    {<<>>, <<Ch.S, Ch.colon, Ch.slash, Ch.slash, Ch.U, Ch.at, Ch.H, Ch.colon,
            Ch.eight>>}

\* no query, or "?q"
BaseQueries == {<<>>, <<Ch.question, Ch.q>>}

BaseInputs ==
    Concat2(Concat2(BasePrefixes, Strings({Ch.slash, Ch.x}, MaxBaseLen)),
            BaseQueries)

RefInputs ==
    Strings({Ch.slash, Ch.y, Ch.question, Ch.hash, Ch.dot, Ch.colon},
            MaxRefLen)

NextResolve ==
    \/ /\ calls = <<>>
       /\ \E s \in BaseInputs : CallParseFromString(s)
    \/ /\ calls = <<"ParseFromString">>
       /\ ok
       /\ \E s \in RefInputs : CallParseReference(s)
    \/ /\ Last = "ParseReference"
       /\ refOk
       /\ CallResolve
    \/ /\ Last = "Resolve"
       /\ CallGenerateTarget

SpecResolve == Init /\ [][NextResolve]_vars

\* Resolve has returned target for the base uri and the reference ref
Resolved == Last \in {"Resolve", "GenerateTarget"}

\* the reference has no scheme, an empty host and a non-empty relative path
MergeCase ==
    /\ ref.scheme = <<>>
    /\ ref.host = <<>>
    /\ ref.path # <<>>
    /\ ref.path[1] # <<>>

\* C6: in the merge case the target has the base's scheme and authority, its
\* path is NormalizePath of the base path without its last segment (kept when
\* the base path has at most one segment) followed by the reference's
\* segments, and its query text is the reference's.
C6_ResolveMergeRule ==
    (Resolved /\ MergeCase)
    => /\ target.scheme = uri.scheme
       /\ target.userInfo = uri.userInfo
       /\ target.host = uri.host
       /\ target.hasPort = uri.hasPort
       /\ target.port = uri.port
       /\ target.path =
              NormalizePath(
                  (IF Len(uri.path) <= 1 THEN uri.path
                   ELSE SubSeq(uri.path, 1, Len(uri.path) - 1)) \o ref.path)
       /\ target.query = ref.query

\* a reference with a relative path and a query has been merged with a base
\* that has a scheme, an authority and a path of several segments
C6_Witness ==
    /\ Last = "Resolve"
    /\ MergeCase
    /\ uri.scheme # <<>>
    /\ uri.userInfo # <<>>
    /\ uri.hasPort
    /\ Len(uri.path) > 1
    /\ ref.query # <<>>
    /\ target.path # uri.path

\* C7: the target's fragment is the reference's, text and presence.
C7_FragmentFromReference ==
    Resolved
    => /\ target.fragment = ref.fragment
       /\ target.hasFragment = ref.hasFragment

\* C8: when the reference has no scheme, an empty host and an empty path, the
\* target's path is the base's and its query is the reference's if the
\* reference has one (HasQuery), else the base's.
C8_EmptyPathReference ==
    (Resolved /\ ref.scheme = <<>> /\ ref.host = <<>> /\ ref.path = <<>>)
    => /\ target.path = uri.path
       /\ target.query = (IF ref.hasQuery THEN ref.query ELSE uri.query)

\* the Uri Resolve copies the target's query from
QuerySource ==
    IF ref.scheme = <<>> /\ ref.host = <<>> /\ ref.path = <<>>
       /\ ref.query = <<>>
    THEN uri ELSE ref

\* C9: the target has a query exactly when the Uri its query was copied from
\* has one, and GenerateString of the target then writes the '?'.
C9_QueryPresenceCarried ==
    /\ Resolved => target.hasQuery = QuerySource.hasQuery
    /\ (Last = "GenerateTarget" /\ QuerySource.hasQuery)
       => Ch.question \in Range(text)

(***************************************************************************)
(* SpecRoundTrip: a string is parsed (or a userinfo is set), the Uri is    *)
(* generated and the generated string is parsed by a second Uri.           *)
(***************************************************************************)
RoundTripInputs ==
    Strings({Ch.slash, Ch.percent, Ch.four, Ch.one, Ch.colon, Ch.question,
             Ch.hash, Ch.x}, MaxLen)

\* "U U"
UserInfos == {<<Ch.U, Ch.space, Ch.U>>}

NextRoundTrip ==
    \/ /\ calls = <<>>
       /\ \E s \in RoundTripInputs : CallParseFromString(s)
    \/ /\ calls = <<>>
       /\ \E v \in UserInfos : CallSetUserInfo(v)
    \/ /\ \/ calls = <<"ParseFromString">> /\ ok
          \/ calls = <<"SetUserInfo">>
       /\ CallGenerateString
    \/ /\ Last = "GenerateString"
       /\ CallParseGenerated

SpecRoundTrip == Init /\ [][NextRoundTrip]_vars

\* C1: the string generated from a successfully parsed Uri parses, and to a
\* Uri equal to the first.
C1_RoundTrip ==
    calls = <<"ParseFromString", "GenerateString", "ParseGenerated">>
    => refOk /\ UriEquals(ref, uri)

\* the two hexadecimal digits of a byte, in upper or in lower case
HexDigit(n, upper) ==
    IF n < 10 THEN Ch.zero + n
    ELSE (IF upper THEN Ch.A ELSE Ch.a) + (n - 10)

\* an element with every byte outside the allowed set written as "%XX"
RECURSIVE EncodeElement(_, _, _)
EncodeElement(element, allowed, upper) ==
    IF element = <<>> THEN <<>>
    ELSE (IF element[1] \in allowed THEN <<element[1]>>
          ELSE <<Ch.percent, HexDigit(element[1] \div 16, upper),
                 HexDigit(element[1] % 16, upper)>>)
         \o EncodeElement(Tail(element), allowed, upper)

\* the Uri with its components percent-encoded
Encoded(u, upper) ==
    [u EXCEPT
       !.userInfo = EncodeElement(u.userInfo, USER_INFO_NOT_PCT_ENCODED, upper),
       !.host = IF ValidateIpv6Address(u.host) THEN u.host
                ELSE EncodeElement(u.host, REG_NAME_NOT_PCT_ENCODED, upper),
       !.path = [i \in 1..Len(u.path) |->
                    EncodeElement(u.path[i], PCHAR_NOT_PCT_ENCODED, upper)],
       !.query = EncodeElement(u.query, QUERY_OR_FRAGMENT_NOT_PCT_ENCODED,
                               upper),
       !.fragment = EncodeElement(u.fragment,
                                  QUERY_OR_FRAGMENT_NOT_PCT_ENCODED, upper)]

\* C10: GenerateString writes every byte of userInfo, host, path segments,
\* query and fragment that is outside the component's allowed set as "%XX":
\* its output is what it writes for the percent-encoded components.
C10_GenerateStringPercentEncodes ==
    Last = "GenerateString"
    => \E upper \in BOOLEAN : text = GenerateString(Encoded(uri, upper))

(***************************************************************************)
(* SpecHistory: up to MaxOps + 1 calls of ParseFromString, Set* and Clear*  *)
(* on the same Uri.                                                        *)
(***************************************************************************)
\* no scheme, or "S:"
SchemeParts == {<<>>, <<Ch.S, Ch.colon>>}

\* no authority, "//U@H:8", or "//h:x" whose port does not parse
AuthorityParts ==
    {<<>>,
     <<Ch.slash, Ch.slash, Ch.U, Ch.at, Ch.H, Ch.colon, Ch.eight>>,
     <<Ch.slash, Ch.slash, Ch.h, Ch.colon, Ch.x>>}

\* nothing, "/x?q#f", or "/%x" whose escape does not decode
TailParts ==
    {<<>>,
     <<Ch.slash, Ch.x, Ch.question, Ch.q, Ch.hash, Ch.f>>,
     <<Ch.slash, Ch.percent, Ch.x>>}

HistoryInputs == Concat2(Concat2(SchemeParts, AuthorityParts), TailParts)

NextHistory ==
    /\ Len(calls) <= MaxOps
    /\ \/ \E s \in HistoryInputs : CallParseFromString(s)
       \/ CallSetScheme(<<Ch.s>>)
       \/ CallSetUserInfo(<<Ch.u>>)
       \/ CallSetHost(<<Ch.a>>)
       \/ CallSetPort(9)
       \/ CallClearPort
       \/ CallSetPath(<<<<>>, <<Ch.z>>>>)
       \/ CallSetQuery(<<Ch.y>>)
       \/ CallClearQuery
       \/ CallSetFragment(<<Ch.z>>)
       \/ CallClearFragment

SpecHistory == Init /\ [][NextHistory]_vars

\* C2: whatever was done to the Uri before, after a ParseFromString that
\* returns true every component and presence flag is what the same call
\* leaves in a newly constructed Uri.
C2_ParseNotAdditive ==
    (Last = "ParseFromString" /\ ok)
    => /\ ParseFromString(NewUri, arg).ok
       /\ uri = ParseFromString(NewUri, arg).uri

\* a string without authority, query and fragment has been parsed by a Uri
\* that had a userinfo, a host, a port, a query and a fragment
C2_Witness ==
    /\ Len(calls) > 1
    /\ Last = "ParseFromString"
    /\ ok
    /\ prev.userInfo # <<>> /\ prev.host # <<>> /\ prev.hasPort
    /\ prev.hasQuery /\ prev.hasFragment /\ prev.path # <<>>
    /\ uri.userInfo = <<>> /\ uri.host = <<>> /\ ~uri.hasPort
    /\ ~uri.hasQuery /\ ~uri.hasFragment /\ uri.path = <<>>

(***************************************************************************)
(* SpecGenerate: a Uri gets a host or is parsed, its query and fragment    *)
(* are set or cleared, and its string is generated.                        *)
(***************************************************************************)
Hosts == Strings({Ch.F, Ch.f, Ch.one, Ch.colon}, MaxHostLen)

\* ["" | "S://h"] ["" | "/x"] ["" | "?" | "?q"] ["" | "#" | "#f"]
GenerateInputs ==
    Concat2(
      Concat2(
        Concat2({<<>>, <<Ch.S, Ch.colon, Ch.slash, Ch.slash, Ch.h>>},
                {<<>>, <<Ch.slash, Ch.x>>}),
        {<<>>, <<Ch.question>>, <<Ch.question, Ch.q>>}),
      {<<>>, <<Ch.hash>>, <<Ch.hash, Ch.f>>})

NextGenerate ==
    \/ /\ calls = <<>>
       /\ \E h \in Hosts : CallSetHost(h)
    \/ /\ calls = <<>>
       /\ \E s \in GenerateInputs : CallParseFromString(s)
    \/ /\ calls # <<>>
       /\ Len(calls) <= MaxOps
       /\ \/ CallSetQuery(<<>>)
          \/ CallSetQuery(<<Ch.y>>)
          \/ CallClearQuery
          \/ CallSetFragment(<<>>)
          \/ CallClearFragment
    \/ /\ calls # <<>>
       /\ Len(calls) <= MaxOps + 1
       /\ Last # "GenerateString"
       /\ CallGenerateString

SpecGenerate == Init /\ [][NextGenerate]_vars

\* the host as the generated string is to show it
ExpectedHostText(host) ==
    IF ValidateIpv6Address(host)
    THEN <<Ch.lbracket>> \o NormalizeCaseInsensitiveString(host)
         \o <<Ch.rbracket>>
    ELSE host

\* C11: the string generated for a Uri that has only a host (and possibly a
\* query and a fragment) starts with "//" and the host, in brackets and
\* lower-cased when it validates as IPv6 and as it is otherwise.
C11_Ipv6HostBracketedLowerCase ==
    (/\ Last = "GenerateString"
     /\ calls[1] = "SetHost"
     /\ uri.host # <<>>)
    => SubstrTo(text, 2 + Len(ExpectedHostText(uri.host)))
         = <<Ch.slash, Ch.slash>> \o ExpectedHostText(uri.host)

\* the string has a '?' before any '#' and no text between that '?' and the
\* '#' or the end of the string
EmptyQueryWritten(str) ==
    \E i \in 1..Len(str) :
       /\ str[i] = Ch.question
       /\ \A j \in 1..(i - 1) : str[j] \notin {Ch.question, Ch.hash}
       /\ i = Len(str) \/ str[i + 1] = Ch.hash

\* the first '#' of the string is its last byte
EmptyFragmentWritten(str) ==
    /\ str # <<>>
    /\ str[Len(str)] = Ch.hash
    /\ \A j \in 1..(Len(str) - 1) : str[j] # Ch.hash

\* C13: a '?' (a '#') followed by no text parses to a present and empty
\* query (fragment), and the generated string ends with '?' and the query
\* exactly when HasQuery() and then '#' and the fragment exactly when
\* HasFragment(), whatever text ClearQuery or ClearFragment left behind.
C13_EmptyButPresent ==
    /\ (Last = "ParseFromString" /\ ok /\ EmptyQueryWritten(arg))
       => uri.hasQuery /\ uri.query = <<>>
    /\ (Last = "ParseFromString" /\ ok /\ EmptyFragmentWritten(arg))
       => uri.hasFragment /\ uri.fragment = <<>>
    /\ Last = "GenerateString"
       => text = GenerateString([uri EXCEPT !.hasQuery = FALSE,
                                            !.hasFragment = FALSE])
                 \o (IF uri.hasQuery THEN <<Ch.question>> \o uri.query
                     ELSE <<>>)
                 \o (IF uri.hasFragment THEN <<Ch.hash>> \o uri.fragment
                     ELSE <<>>)

\* the string of a Uri parsed from "...?#f" has been generated after
\* ClearFragment: the empty query is present, the fragment text is not
C13_Witness ==
    /\ calls = <<"ParseFromString", "ClearFragment", "GenerateString">>
    /\ EmptyQueryWritten(arg)
    /\ uri.hasQuery /\ uri.query = <<>>
    /\ ~uri.hasFragment /\ uri.fragment # <<>>
    /\ text[Len(text)] = Ch.question

\* C15: a Uri without query has the query text "", a Uri without fragment
\* the fragment text "".
C15_AbsentMeansEmptyText ==
    /\ ~uri.hasQuery => uri.query = <<>>
    /\ ~uri.hasFragment => uri.fragment = <<>>

(***************************************************************************)
(* SpecIpLiteral: a string with a bracketed host is parsed, the Uri is     *)
(* generated and the generated string is parsed by a second Uri.           *)
(***************************************************************************)
\* "//[" body "]" and "//[" body "]/"
IpLiteralInputs ==
    Concat2(
      Concat2({<<Ch.slash, Ch.slash, Ch.lbracket>>},
              Strings({Ch.v, Ch.one, Ch.F, Ch.dot, Ch.colon}, MaxHostLen + 1)),
      {<<Ch.rbracket>>, <<Ch.rbracket, Ch.slash>>})

NextIpLiteral ==
    \/ /\ calls = <<>>
       /\ \E s \in IpLiteralInputs : CallParseFromString(s)
    \/ /\ calls = <<"ParseFromString">>
       /\ ok
       /\ CallGenerateString
    \/ /\ Last = "GenerateString"
       /\ CallParseGenerated

SpecIpLiteral == Init /\ [][NextIpLiteral]_vars

\* C12: the string generated from an accepted "//[v...]..." has the host in
\* brackets, and parses to the same host.
C12_IpvFutureBracketsRestored ==
    (/\ calls = <<"ParseFromString", "GenerateString", "ParseGenerated">>
     /\ arg[4] = Ch.v)
    => /\ SubstrTo(text, 4 + Len(uri.host))
            = <<Ch.slash, Ch.slash, Ch.lbracket>> \o uri.host
              \o <<Ch.rbracket>>
       /\ refOk
       /\ ref.host = uri.host

(***************************************************************************)
(* SpecCompare: a Uri is parsed and may get a port set and cleared, a      *)
(* second Uri is parsed, and the two are compared with == and !=.          *)
(***************************************************************************)
\* ["" | "S:"] ["" | "//U@H:8" | "//H"]
\* ["" | "/x" | "?" | "?q" | "#" | "/x?q#f"]
CompareInputs ==
    Concat2(
      Concat2(SchemeParts,
              {<<>>,
               <<Ch.slash, Ch.slash, Ch.U, Ch.at, Ch.H, Ch.colon, Ch.eight>>,
               <<Ch.slash, Ch.slash, Ch.H>>}),
      {<<>>, <<Ch.slash, Ch.x>>, <<Ch.question>>, <<Ch.question, Ch.q>>,
       <<Ch.hash>>,
       <<Ch.slash, Ch.x, Ch.question, Ch.q, Ch.hash, Ch.f>>})

NextCompare ==
    \/ /\ calls = <<>>
       /\ \E s \in CompareInputs : CallParseFromString(s)
    \/ /\ calls = <<"ParseFromString">>
       /\ ok
       /\ \E v \in {8, 9} : CallSetPort(v)
    \/ /\ Last = "SetPort"
       /\ CallClearPort
    \/ /\ Last \in {"ParseFromString", "SetPort", "ClearPort"}
       /\ ok
       /\ \E s \in CompareInputs : CallParseReference(s)
    \/ /\ Last = "ParseReference"
       /\ refOk
       /\ CallEquals
    \/ /\ Last = "Equals"
       /\ CallNotEquals

SpecCompare == Init /\ [][NextCompare]_vars

\* the components other than the port that operator== is said to compare
SameTexts(a, b) ==
    /\ a.scheme = b.scheme
    /\ a.userInfo = b.userInfo
    /\ a.host = b.host
    /\ a.path = b.path
    /\ a.query = b.query
    /\ a.fragment = b.fragment

\* C14 as stated: uri == ref is true exactly when the scheme, userInfo,
\* host, hasPort, port, path, query text and fragment text of the two are
\* equal, whatever their hasQuery and hasFragment; uri != ref is the negation.
C14_EqualityComparesComponents ==
    /\ Last \in {"Equals", "NotEquals"}
       => cmp.eq = (/\ SameTexts(uri, ref)
                    /\ uri.hasPort = ref.hasPort
                    /\ uri.port = ref.port)
    /\ Last = "NotEquals" => cmp.ne = ~cmp.eq

\* C14 amended: as stated, but the port numbers are compared only when both
\* Uris have a port; without a port on either side the ports count as equal.
C14_EqualityComparesPresentPorts ==
    /\ Last \in {"Equals", "NotEquals"}
       => cmp.eq = (/\ SameTexts(uri, ref)
                    /\ uri.hasPort = ref.hasPort
                    /\ uri.hasPort => uri.port = ref.port)
    /\ Last = "NotEquals" => cmp.ne = ~cmp.eq

\* two Uris that differ in hasQuery, and in the port number that ClearPort
\* left behind, have compared equal
C14_Witness ==
    /\ Last = "NotEquals"
    /\ cmp.eq /\ ~cmp.ne
    /\ uri.hasQuery # ref.hasQuery
    /\ ~uri.hasPort /\ uri.port # ref.port

(***************************************************************************)
(* SpecScheme: one string is parsed by a new Uri.                          *)
(***************************************************************************)
SchemeInputs ==
    Strings({Ch.S, Ch.x, Ch.one, Ch.plus, Ch.colon, Ch.slash, Ch.question,
             Ch.hash}, MaxLen)

NextScheme ==
    /\ calls = <<>>
    /\ \E s \in SchemeInputs : CallParseFromString(s)

SpecScheme == Init /\ [][NextScheme]_vars

\* the string has a ':' with no ':' and no '/' before it
HasSchemeDelimiter(str) ==
    \E i \in 1..Len(str) :
       str[i] = Ch.colon /\ \A j \in 1..(i - 1) : str[j] # Ch.slash

\* the text before the first ':'
SchemeText(str) ==
    SubSeq(str, 1, (CHOOSE i \in 1..Len(str) :
                       /\ str[i] = Ch.colon
                       /\ \A j \in 1..(i - 1) : str[j] # Ch.colon) - 1)

\* ALPHA *( ALPHA / DIGIT / "+" / "-" / "." )
LegalScheme(scheme) ==
    /\ scheme # <<>>
    /\ scheme[1] \in ALPHA
    /\ \A i \in 2..Len(scheme) :
          scheme[i] \in ALPHA \cup DIGIT \cup {Ch.plus, Ch.minus, Ch.dot}

\* "x:" in front of the string
WithScheme(str) == <<Ch.x, Ch.colon>> \o str

\* C16: with a ':' before the first '/', the parse fails unless the text
\* before the first ':' is a legal scheme and, when it succeeds, the scheme
\* is that text in lower case; without such a ':' the scheme is empty and
\* the whole string is parsed as what follows a scheme.
C16_SchemeParsing ==
    Last = "ParseFromString"
    => /\ (HasSchemeDelimiter(arg) /\ ~LegalScheme(SchemeText(arg))) => ~ok
       /\ (HasSchemeDelimiter(arg) /\ ok)
          => uri.scheme = NormalizeCaseInsensitiveString(SchemeText(arg))
       /\ ~HasSchemeDelimiter(arg)
          => /\ uri.scheme = <<>>
             /\ ok = ParseFromString(NewUri, WithScheme(arg)).ok
             /\ uri = [ParseFromString(NewUri, WithScheme(arg)).uri
                         EXCEPT !.scheme = <<>>]

\* a string with an upper-case scheme, '+' in it, has been accepted
C16_Witness ==
    /\ Last = "ParseFromString"
    /\ ok
    /\ HasSchemeDelimiter(arg)
    /\ Ch.plus \in Range(uri.scheme)
    /\ uri.scheme # SchemeText(arg)

\* C17: when a '/', '?' or '#' comes before the first ':', the scheme is
\* empty and the parse does not fail because of the scheme: it returns what
\* it returns for the string behind a scheme.
C17_ColonElsewhereIsNoSchemeDelimiter ==
    (/\ Last = "ParseFromString"
     /\ \E i \in 1..Len(arg) :
           /\ arg[i] \in {Ch.slash, Ch.question, Ch.hash}
           /\ \A j \in 1..(i - 1) : arg[j] # Ch.colon)
    => /\ uri.scheme = <<>>
       /\ ok = ParseFromString(NewUri, WithScheme(arg)).ok

(***************************************************************************)
(* SpecPort: "//h", or "//h:" and a port string, is parsed by a new Uri.   *)
(***************************************************************************)
PortStrings == Strings({Ch.zero, Ch.three, Ch.five, Ch.six, Ch.x}, MaxPortLen)

PortInputs ==
    Concat2({<<Ch.slash, Ch.slash, Ch.h>>},
            {<<>>} \cup Concat2({<<Ch.colon>>}, PortStrings))

NextPort ==
    /\ calls = <<>>
    /\ \E s \in PortInputs : CallParseFromString(s)

SpecPort == Init /\ [][NextPort]_vars

\* what follows "//h:" in the string
PortText(str) == SubSeq(str, 5, Len(str))

\* the number a string of decimal digits denotes
RECURSIVE DecimalValue(_)
DecimalValue(digits) ==
    IF digits = <<>> THEN 0
    ELSE DecimalValue(SubSeq(digits, 1, Len(digits) - 1)) * 10
         + (digits[Len(digits)] - Ch.zero)

\* C18: behind the host and ':', the parse succeeds exactly when the port
\* string is made of decimal digits and denotes at most 65535; a non-empty
\* one then gives HasPort() and that number as GetPort(); without port text
\* HasPort() is false and GetPort() is 0.
C18_PortParsing ==
    Last = "ParseFromString"
    => /\ Len(arg) > 3
          => /\ ok = (/\ \A i \in 1..Len(PortText(arg)) :
                            PortText(arg)[i] \in DIGIT
                      /\ DecimalValue(PortText(arg)) <= 65535)
             /\ (ok /\ PortText(arg) # <<>>)
                => uri.hasPort /\ uri.port = DecimalValue(PortText(arg))
       /\ (ok /\ (Len(arg) <= 3 \/ PortText(arg) = <<>>))
          => ~uri.hasPort /\ uri.port = 0

\* the port string "065535" has been accepted
C18_Witness ==
    /\ Last = "ParseFromString"
    /\ ok
    /\ Len(PortText(arg)) > 5
    /\ uri.hasPort
    /\ uri.port = 65535

\* the string has a '%' that is not followed by two hexadecimal digits
HasBrokenEscape(str) ==
    \E i \in 1..Len(str) :
       /\ str[i] = Ch.percent
       /\ ~(/\ i + 2 <= Len(str)
            /\ str[i + 1] \in HEXDIG
            /\ str[i + 2] \in HEXDIG)

\* C19: a string with a '%' that is not followed by two hexadecimal digits,
\* be it at the end of an element, is not accepted.
C19_BrokenEscapeRejected ==
    (Last = "ParseFromString" /\ HasBrokenEscape(arg)) => ~ok

(***************************************************************************)
(* Bracketed IPv6 hosts: ParseFromString of "//[" address "]".  The        *)
(* addresses are every short string over ':', '1', 'F', 'x', '.' and       *)
(* longer ones made of an optional "::", some "1:" groups and a last group *)
(* or dotted tail.                                                         *)
(***************************************************************************)
MaxAddrLen == 4

\* the number of groups of an address without "::"
Ipv6Groups == 8

RECURSIVE Repeat(_, _)
Repeat(str, k) == IF k = 0 THEN <<>> ELSE str \o Repeat(str, k - 1)

DottedTails ==
    {<<Ch.one, Ch.dot, Ch.one, Ch.dot, Ch.one, Ch.dot, Ch.one>>,
     <<Ch.one, Ch.dot, Ch.one, Ch.dot, Ch.one>>,
     <<Ch.one, Ch.dot, Ch.one, Ch.dot, Ch.one, Ch.dot, Ch.one, Ch.dot, Ch.one>>,
     <<Ch.one, Ch.dot, Ch.one, Ch.dot, Ch.one, Ch.dot,
       Ch.three, Ch.zero, Ch.zero>>}

\* up to one group more than a full address, and a dotted tail after up to
\* Ipv6Groups - 2 groups
LongAddresses ==
    Concat2({<<>>, <<Ch.colon, Ch.colon>>},
            Concat2({Repeat(<<Ch.one, Ch.colon>>, k) : k \in 0..Ipv6Groups},
                    {<<Ch.one>>})
              \cup
            Concat2({Repeat(<<Ch.one, Ch.colon>>, k) :
                        k \in 0..(Ipv6Groups - 2)},
                    DottedTails))

Addresses ==
    Strings({Ch.colon, Ch.one, Ch.F, Ch.x, Ch.dot}, MaxAddrLen)
        \cup LongAddresses

Ipv6Inputs ==
    Concat2(Concat2({<<Ch.slash, Ch.slash, Ch.lbracket>>}, Addresses),
            {<<Ch.rbracket>>})

NextIpv6 ==
    /\ calls = <<>>
    /\ \E s \in Ipv6Inputs : CallParseFromString(s)

SpecIpv6 == Init /\ [][NextIpv6]_vars

\* the address between the brackets of an input of Ipv6Inputs
AddressOf(str) == SubSeq(str, 4, Len(str) - 1)

\* the pieces of a string between the occurrences of a separator
RECURSIVE FieldsOf(_, _)
FieldsOf(str, sep) ==
    IF \A i \in 1..Len(str) : str[i] # sep THEN <<str>>
    ELSE LET p == CHOOSE i \in 1..Len(str) :
                     /\ str[i] = sep
                     /\ \A j \in 1..(i - 1) : str[j] # sep
         IN <<SubSeq(str, 1, p - 1)>>
                \o FieldsOf(SubSeq(str, p + 1, Len(str)), sep)

IsHexGroup(f) == Len(f) \in 1..4 /\ \A i \in 1..Len(f) : f[i] \in HEXDIG

IsOctet(f) ==
    /\ Len(f) >= 1
    /\ \A i \in 1..Len(f) : f[i] \in DIGIT
    /\ DecimalValue(f) <= 255

IsDottedIpv4(f) ==
    LET o == FieldsOf(f, Ch.dot)
    IN Len(o) = 4 /\ \A i \in 1..4 : IsOctet(o[i])

\* groups of 1-4 hex digits separated by ':', at most one "::", an optional
\* last dotted-decimal IPv4 address counting as two groups, 8 groups
\* without "::" and at most 7 with it
WellFormedIpv6(str) ==
    LET f == FieldsOf(str, Ch.colon)
        n == Len(f)
        doubles == {i \in 1..(Len(str) - 1) :
                       str[i] = Ch.colon /\ str[i + 1] = Ch.colon}
        groups == {i \in 1..n : f[i] # <<>>}
        count == Cardinality(groups)
                     + (IF IsDottedIpv4(f[n]) THEN 1 ELSE 0)
    IN /\ Cardinality(doubles) <= 1
       /\ (str # <<>> /\ str[1] = Ch.colon) => 1 \in doubles
       /\ (str # <<>> /\ str[Len(str)] = Ch.colon)
              => (Len(str) - 1) \in doubles
       /\ \A i \in groups : IsHexGroup(f[i]) \/ (i = n /\ IsDottedIpv4(f[i]))
       /\ IF doubles = {} THEN count = 8 ELSE count <= 7

\* C20: a bracketed host that does not start with 'v' is accepted only if
\* it is a well-formed IPv6 address: hex groups separated by ':', at most
\* one "::", an optional dotted-decimal tail counting as two groups, and
\* the right number of groups.
C20_Ipv6ValidationSound ==
    (Last = "ParseFromString" /\ ok) => WellFormedIpv6(AddressOf(arg))

\* C21: every well-formed IPv6 address (8 groups without "::", at most 7
\* with one "::" wherever it stands, groups of decimal digits included, a
\* dotted tail counting as two groups) is accepted as a bracketed host.
C21_Ipv6ValidationComplete ==
    (Last = "ParseFromString" /\ WellFormedIpv6(AddressOf(arg))) => ok

(***************************************************************************)
(* Hosts: ParseFromString of "//" host and of "//" host "/", the host      *)
(* being a reg-name over 'A', 'a', '%', '4', '1', '.' or a bracketed       *)
(* literal over 'v', '1', 'F', 'f', '.', ':'.                              *)
(***************************************************************************)
RegNames == Strings({Ch.A, Ch.a, Ch.percent, Ch.four, Ch.one, Ch.dot}, MaxLen)

Literals ==
    Concat2(Concat2({<<Ch.lbracket>>},
                    Strings({Ch.v, Ch.one, Ch.F, Ch.f, Ch.dot, Ch.colon},
                            MaxHostLen + 1)),
            {<<Ch.rbracket>>})

HostInputs ==
    Concat2(Concat2({<<Ch.slash, Ch.slash>>}, RegNames \cup Literals),
            {<<>>, <<Ch.slash>>})

NextHost ==
    /\ calls = <<>>
    /\ \E s \in HostInputs : CallParseFromString(s)

SpecHost == Init /\ [][NextHost]_vars

\* the host text of an input of HostInputs
HostText(str) ==
    IF str[Len(str)] = Ch.slash /\ Len(str) > 2
    THEN SubSeq(str, 3, Len(str) - 1)
    ELSE SubSeq(str, 3, Len(str))

\* the value of a hexadecimal digit
HexDigitValue(c) ==
    CHOOSE n \in 0..15 : c \in {HexDigit(n, TRUE), HexDigit(n, FALSE)}

\* a string with every "%XX" replaced by the byte XX
RECURSIVE PercentDecoded(_)
PercentDecoded(str) ==
    IF str = <<>> THEN <<>>
    ELSE IF str[1] = Ch.percent /\ Len(str) >= 3
                /\ str[2] \in HEXDIG /\ str[3] \in HEXDIG
    THEN <<16 * HexDigitValue(str[2]) + HexDigitValue(str[3])>>
             \o PercentDecoded(SubSeq(str, 4, Len(str)))
    ELSE <<str[1]>> \o PercentDecoded(Tail(str))

\* upper-case ASCII letters replaced by their lower-case ones
AsciiLowerCased(str) ==
    [i \in 1..Len(str) |->
        IF str[i] \in 65..90 THEN str[i] + 32 ELSE str[i]]

\* C22: a reg-name host is stored percent-decoded and ASCII-lower-cased;
\* a bracketed literal is stored without the brackets, bytes and letter
\* case unchanged.
C22_HostNormalization ==
    (Last = "ParseFromString" /\ ok)
        => LET h == HostText(arg)
           IN uri.host =
                 IF h # <<>> /\ h[1] = Ch.lbracket
                 THEN SubSeq(h, 2, Len(h) - 1)
                 ELSE AsciiLowerCased(PercentDecoded(h))

C22_Witness ==
    /\ Last = "ParseFromString"
    /\ ok
    /\ arg = <<Ch.slash, Ch.slash, Ch.percent, Ch.four, Ch.one, Ch.slash>>
    /\ uri.host = <<Ch.a>>

C22_WitnessLiteral ==
    /\ Last = "ParseFromString"
    /\ ok
    /\ arg = <<Ch.slash, Ch.slash, Ch.lbracket, Ch.colon, Ch.colon, Ch.F,
               Ch.rbracket>>
    /\ uri.host = <<Ch.colon, Ch.colon, Ch.F>>

(***************************************************************************)
(* Default path: one or two ParseFromString calls on one Uri with every    *)
(* combination of a scheme, an authority, a raw path and a query or        *)
(* fragment; after a single parse of a string with an empty raw path, a    *)
(* second Uri parses the same string with the path "/" and the two are     *)
(* compared.                                                               *)
(***************************************************************************)
DefaultPathAuthorities ==
    {<<>>,
     <<Ch.slash, Ch.slash>>,
     <<Ch.slash, Ch.slash, Ch.h>>,
     <<Ch.slash, Ch.slash, Ch.u, Ch.at>>,
     <<Ch.slash, Ch.slash, Ch.colon, Ch.eight>>,
     <<Ch.slash, Ch.slash, Ch.h, Ch.colon, Ch.eight>>,
     <<Ch.slash, Ch.slash, Ch.lbracket, Ch.colon, Ch.colon, Ch.one,
       Ch.rbracket>>}

DefaultPathInputs ==
    Concat2(Concat2(Concat2(SchemeParts, DefaultPathAuthorities),
                    {<<>>, <<Ch.slash>>, <<Ch.slash, Ch.x>>}),
            {<<>>, <<Ch.question, Ch.q>>, <<Ch.hash, Ch.f>>})

\* what follows the scheme delimiter of an input of DefaultPathInputs
AfterScheme(str) ==
    IF Len(str) >= 2 /\ str[2] = Ch.colon THEN SubSeq(str, 3, Len(str))
    ELSE str

\* the authority and the raw path: what stands before the first '?' or '#'
HierPart(str) ==
    LET rest == AfterScheme(str)
        stops == {i \in 1..Len(rest) : rest[i] \in {Ch.question, Ch.hash}}
    IN IF stops = {} THEN rest
       ELSE SubSeq(rest, 1, (CHOOSE i \in stops : \A j \in stops : i <= j) - 1)

RawPath(str) ==
    LET hier == HierPart(str)
        slashes == {i \in 3..Len(hier) : hier[i] = Ch.slash}
    IN IF Len(hier) >= 2 /\ hier[1] = Ch.slash /\ hier[2] = Ch.slash
       THEN IF slashes = {} THEN <<>>
            ELSE SubSeq(hier,
                        CHOOSE i \in slashes : \A j \in slashes : i <= j,
                        Len(hier))
       ELSE hier

\* the string with "/" put behind its authority and raw path
WithSlashPath(str) ==
    LET n == (Len(str) - Len(AfterScheme(str))) + Len(HierPart(str))
    IN SubSeq(str, 1, n) \o <<Ch.slash>> \o SubSeq(str, n + 1, Len(str))

NextDefaultPath ==
    \/ /\ Len(calls) <= 1
       /\ Last \in {"Uri", "ParseFromString"}
       /\ \E s \in DefaultPathInputs : CallParseFromString(s)
    \/ /\ calls = <<"ParseFromString">>
       /\ ok
       /\ RawPath(arg) = <<>>
       /\ CallParseReference(WithSlashPath(arg))
    \/ /\ Last = "ParseReference"
       /\ refOk
       /\ CallEquals

SpecDefaultPath == Init /\ [][NextDefaultPath]_vars

C23_WitnessEmptyHost ==
    /\ Len(calls) = 2
    /\ Last = "ParseFromString"
    /\ ok
    /\ prev.path # <<>>
    /\ HierPart(arg) = <<Ch.slash, Ch.slash, Ch.u, Ch.at>>
    /\ uri.path = <<>>

(***************************************************************************)
(* Paths: ParseFromString of a raw path over '/', 'x', '@', '[', '%', '4', *)
(* alone when it does not start with "//", and behind "//h" when it        *)
(* starts with '/'.                                                        *)
(***************************************************************************)
PathStrings ==
    Strings({Ch.slash, Ch.x, Ch.at, Ch.lbracket, Ch.percent, Ch.four}, MaxLen)

PathInputs ==
    {p \in PathStrings : ~StartsWith(p, <<Ch.slash, Ch.slash>>)}
        \cup Concat2({<<Ch.slash, Ch.slash, Ch.h>>},
                     {p \in PathStrings : StartsWith(p, <<Ch.slash>>)})

NextPath ==
    /\ calls = <<>>
    /\ \E s \in PathInputs : CallParseFromString(s)

SpecPath == Init /\ [][NextPath]_vars

\* the path is made of pchar bytes other than '%' and of '/'
PcharOnly(p) ==
    \A i \in 1..Len(p) : p[i] \in PCHAR_NOT_PCT_ENCODED \cup {Ch.slash}

\* the path has a byte that is neither a pchar byte, '/', nor in an escape
HasIllegalPathByte(p) ==
    \E i \in 1..Len(p) :
       p[i] \notin PCHAR_NOT_PCT_ENCODED \cup {Ch.slash, Ch.percent}

ExpectedSegments(p) ==
    IF p = <<>> THEN <<>>
    ELSE IF p = <<Ch.slash>> THEN << <<>> >>
    ELSE FieldsOf(p, Ch.slash)

\* C24: a raw path of pchar bytes and '/' parses to [] when empty, to [""]
\* when "/", and else to its pieces between the '/', empty ones kept; a
\* byte outside PCHAR_NOT_PCT_ENCODED that is in no escape fails the parse.
C24_PathSplitting ==
    Last = "ParseFromString"
        => LET p == RawPath(arg)
           IN /\ PcharOnly(p) => (ok /\ uri.path = ExpectedSegments(p))
              /\ HasIllegalPathByte(p) => ~ok

C24_Witness ==
    /\ Last = "ParseFromString"
    /\ ok
    /\ PcharOnly(RawPath(arg))
    /\ Len(uri.path) = 3
    /\ uri.path[2] = <<>>
    /\ uri.path[3] = <<>>

C24_WitnessIllegal ==
    /\ Last = "ParseFromString"
    /\ ~ok
    /\ arg = <<Ch.x, Ch.slash, Ch.lbracket>>

(***************************************************************************)
(* Host state machine: ParseFromString of "//" host and "//" host "/",     *)
(* the host being a bracketed literal over ':', '1', 'v', '.' with         *)
(* nothing, a reg-name byte or a percent-escape before the '['.            *)
(***************************************************************************)
BracketPrefixes ==
    {<<>>,
     <<Ch.a>>,
     <<Ch.percent, Ch.four, Ch.one>>,
     <<Ch.percent, Ch.four>>,
     <<Ch.a, Ch.percent, Ch.four, Ch.one>>,
     <<Ch.percent, Ch.four, Ch.one, Ch.a>>}

BracketInputs ==
    Concat2(
      Concat2(
        Concat2(Concat2({<<Ch.slash, Ch.slash>>}, BracketPrefixes),
                {<<Ch.lbracket>>}),
        Strings({Ch.colon, Ch.one, Ch.v, Ch.dot}, MaxHostLen)),
      {<<Ch.rbracket>>, <<Ch.rbracket, Ch.slash>>})

NextBracket ==
    /\ calls = <<>>
    /\ \E s \in BracketInputs : CallParseFromString(s)

SpecBracket == Init /\ [][NextBracket]_vars

\* C25: a '[' that is not the first byte of the host, one that follows a
\* percent-escape included, makes the parse fail.
C25_BracketOnlyFirst ==
    (/\ Last = "ParseFromString"
     /\ \E i \in 2..Len(HostText(arg)) : HostText(arg)[i] = Ch.lbracket)
        => ~ok

(***************************************************************************)
(* Userinfo: ParseFromString of "//" authority, the authority being a      *)
(* host-port text alone or behind a userinfo over 'u', '%', '4', '1', ':'  *)
(* and '@'; some host-port texts hold an '@' themselves.  A Uri that       *)
(* parsed may parse "//h" next.                                            *)
(***************************************************************************)
MaxUserInfoLen == 3

HostPortTexts ==
    {<<>>,
     <<Ch.h>>,
     <<Ch.h, Ch.colon, Ch.eight>>,
     <<Ch.h, Ch.at, Ch.h>>,
     <<Ch.h, Ch.colon, Ch.at>>,
     <<Ch.lbracket, Ch.colon, Ch.colon, Ch.one, Ch.rbracket>>,
     <<Ch.lbracket, Ch.colon, Ch.at, Ch.colon, Ch.one, Ch.rbracket>>,
     <<Ch.lbracket, Ch.v, Ch.one, Ch.dot, Ch.at, Ch.rbracket>>}

UserInfoTexts ==
    Strings({Ch.u, Ch.percent, Ch.four, Ch.one, Ch.colon}, MaxUserInfoLen)

UserInfoInputs ==
    Concat2({<<Ch.slash, Ch.slash>>},
            HostPortTexts
              \cup Concat2(Concat2(UserInfoTexts, {<<Ch.at>>}), HostPortTexts))

NextUserInfo ==
    \/ /\ calls = <<>>
       /\ \E s \in UserInfoInputs : CallParseFromString(s)
    \/ /\ calls = <<"ParseFromString">>
       /\ ok
       /\ CallParseFromString(<<Ch.slash, Ch.slash, Ch.h>>)

SpecUserInfo == Init /\ [][NextUserInfo]_vars

\* the authority of an input of UserInfoInputs
AuthorityText(str) == SubSeq(str, 3, Len(str))

\* the index of the last '@' of a string, 0 if it has none
LastAt(str) ==
    LET ats == {i \in 1..Len(str) : str[i] = Ch.at}
    IN IF ats = {} THEN 0 ELSE CHOOSE i \in ats : \A j \in ats : j <= i

\* C26: when the parse succeeds, the userinfo is the percent-decoded text
\* before the last '@' of the authority, and the host and port are those of
\* the text behind it; without '@' the userinfo is empty.
C26_UserInfoSplit ==
    (Last = "ParseFromString" /\ ok)
        => LET a == AuthorityText(arg)
               before == SubSeq(a, 1, LastAt(a) - 1)
               behind == ParseFromString(
                             NewUri,
                             <<Ch.slash, Ch.slash>>
                                 \o SubSeq(a, LastAt(a) + 1, Len(a))).uri
           IN IF LastAt(a) = 0 THEN uri.userInfo = <<>>
              ELSE ~HasBrokenEscape(before)
                     => /\ uri.userInfo = PercentDecoded(before)
                        /\ uri.host = behind.host
                        /\ uri.hasPort = behind.hasPort
                        /\ uri.port = behind.port

(***************************************************************************)
(* The two users of PercentEncodedCharacterDecoder, byte by byte:          *)
(* DecodeElement with the path character set, and the host loop of         *)
(* ParseAuthority, on every string over '%', '4', 'F', 'a', 'g', ':'.      *)
(* walk.fed records every NextEncodedCharacter call: the byte, the         *)
(* decoderState before it, what it returned and the decoder after it;      *)
(* walk.accepted counts the bytes the current decoder object accepted and  *)
(* walk.high is the first of them.  The decoder is a local of the routine: *)
(* walk.live is false once the routine has returned.                       *)
(***************************************************************************)
DecoderInputs ==
    Strings({Ch.percent, Ch.four, Ch.F, Ch.a, Ch.g, Ch.colon}, MaxLen)

HostLoopLocals ==
    [state |-> "FIRST_CHARACTER", host |-> <<>>,
     pecDecoder |-> NewDecoder, hostIsRegName |-> FALSE,
     portString |-> <<>>, failed |-> FALSE]

BeginWalk(routine, s) ==
    /\ walk.routine = "none"
    /\ walk' = [NoWalk EXCEPT
                  !.routine = routine, !.input = s, !.live = TRUE,
                  !.locals = IF routine = "DecodeElement"
                             THEN DecodeElementLocals ELSE HostLoopLocals]
    /\ UNCHANGED <<uri, prev, arg, ok, ref, refOk, target, text, cmp, calls,
                   cs>>

\* one iteration of the loop of the routine
WalkIteration ==
    /\ walk.live
    /\ walk.pos < Len(walk.input)
    /\ LET c == walk.input[walk.pos + 1]
           l == walk.locals
           inElement == walk.routine = "DecodeElement"
           feeds == IF inElement THEN l.decodingPec
                    ELSE l.state = "PERCENT_ENCODED_CHARACTER"
           creates == /\ c = Ch.percent
                      /\ IF inElement THEN ~l.decodingPec
                         ELSE l.state \in {"FIRST_CHARACTER", "NOT_IP_LITERAL"}
           n == IF inElement
                THEN DecodeElementStep(l, c, PCHAR_NOT_PCT_ENCODED)
                ELSE HostStep(l, c)
           r == NextEncodedCharacter(l.pecDecoder, c)
       IN walk' = [walk EXCEPT
                     !.pos = walk.pos + 1,
                     !.locals = n,
                     !.live = ~n.failed,
                     !.returned = IF n.failed THEN "false" ELSE "no",
                     !.fed = IF feeds
                             THEN Append(walk.fed,
                                         [c |-> c,
                                          before |-> l.pecDecoder.decoderState,
                                          high |-> walk.high,
                                          ret |-> r.ok,
                                          after |-> r.d])
                             ELSE walk.fed,
                     !.accepted = IF creates THEN 0
                                  ELSE IF feeds /\ r.ok THEN walk.accepted + 1
                                  ELSE walk.accepted,
                     !.high = IF feeds /\ r.ok /\ walk.accepted = 0 THEN c
                              ELSE walk.high]
    /\ UNCHANGED <<uri, prev, arg, ok, ref, refOk, target, text, cmp, calls,
                   cs>>

\* the end of the loop: DecodeElement returns true, ParseAuthority goes on
\* only from the states it accepts and then parses the port
WalkLoopEnd ==
    /\ walk.live
    /\ walk.pos = Len(walk.input)
    /\ walk' = [walk EXCEPT
                  !.live = FALSE,
                  !.returned =
                      IF walk.routine = "DecodeElement" THEN "true"
                      ELSE IF walk.locals.state
                                 \notin {"FIRST_CHARACTER", "NOT_IP_LITERAL",
                                         "GARBAGE_CHECK", "PORT"}
                      THEN "false"
                      ELSE IF walk.locals.portString = <<>> THEN "true"
                      ELSE IF ParseUint16(walk.locals.portString, 0).ok
                      THEN "true" ELSE "false"]
    /\ UNCHANGED <<uri, prev, arg, ok, ref, refOk, target, text, cmp, calls,
                   cs>>

NextWalk ==
    \/ \E s \in DecoderInputs : BeginWalk("DecodeElement", s)
    \/ \E s \in DecoderInputs : BeginWalk("ParseAuthority", s)
    \/ WalkIteration
    \/ WalkLoopEnd

SpecWalk == Init /\ [][NextWalk]_vars

\* the byte-by-byte run returns what the routine as a whole returns
WalkAgrees ==
    (walk.returned # "no")
        => IF walk.routine = "DecodeElement"
           THEN (walk.returned = "true")
                    = DecodeElement(walk.input, PCHAR_NOT_PCT_ENCODED).ok
           ELSE (walk.returned = "true")
                    = ParseHostPort(NewUri, walk.input).ok

HexBytes == (48..57) \cup (65..70) \cup (97..102)

C27_WitnessRejected ==
    /\ walk.routine = "DecodeElement"
    /\ walk.returned = "false"
    /\ Len(walk.fed) = 2
    /\ ~walk.fed[2].ret
    /\ walk.fed[2].c = Ch.g

(***************************************************************************)
(* CharacterSet construction.  The range constructor runs                  *)
(*     for (char c = first; c <= last; ++c) insert(c);                     *)
(* one iteration at a time, c being a char: -128..127 where char is        *)
(* signed, 0..255 where it is unsigned, ++c wrapping from the largest      *)
(* value to the smallest.  The list constructor inserts the members of     *)
(* every set of its list.                                                  *)
(***************************************************************************)
CharValues(charIsSigned) == IF charIsSigned THEN -128..127 ELSE 0..255

CharMin(charIsSigned) == IF charIsSigned THEN -128 ELSE 0

CharMax(charIsSigned) == IF charIsSigned THEN 127 ELSE 255

\* ++c on a char
Increment(c, charIsSigned) ==
    IF c = CharMax(charIsSigned) THEN CharMin(charIsSigned) ELSE c + 1

\* the ends of the ranges constructed: the smallest and largest chars, their
\* neighbours, '0' and '9'
RangeEnds(charIsSigned) ==
    {CharMin(charIsSigned), CharMin(charIsSigned) + 1, Ch.zero, Ch.nine,
     CharMax(charIsSigned) - 1, CharMax(charIsSigned)}

\* CharacterSet(char first, char last), up to the first test of its loop
ConstructRange(first, last, charIsSigned) ==
    /\ cs.constructor = "none"
    /\ cs' = [constructor |-> "range", first |-> first, last |-> last,
              c |-> first, charactersInSet |-> {}, done |-> FALSE,
              charIsSigned |-> charIsSigned]
    /\ UNCHANGED <<uri, prev, arg, ok, ref, refOk, target, text, cmp, calls,
                   walk>>

\* the test of the loop and, if it passes, its body and ++c
RangeIteration ==
    /\ cs.constructor = "range"
    /\ ~cs.done
    /\ cs' = IF cs.c <= cs.last
             THEN [cs EXCEPT
                     !.charactersInSet = cs.charactersInSet \cup {cs.c},
                     !.c = Increment(cs.c, cs.charIsSigned)]
             ELSE [cs EXCEPT !.done = TRUE]
    /\ UNCHANGED <<uri, prev, arg, ok, ref, refOk, target, text, cmp, calls,
                   walk>>

\* the sets given to the list constructor
ListMembers == {{}, {Ch.a}, {Ch.a, Ch.f}, {Ch.zero, Ch.nine}}

\* CharacterSet(std::initializer_list< CharacterSet >)
ConstructList(characterSets) ==
    /\ cs.constructor = "none"
    /\ cs' = [constructor |-> "list", first |-> 0, last |-> 0, c |-> 0,
              charactersInSet |->
                  UNION {characterSets[i] : i \in 1..Len(characterSets)},
              done |-> TRUE, list |-> characterSets]
    /\ UNCHANGED <<uri, prev, arg, ok, ref, refOk, target, text, cmp, calls,
                   walk>>

NextCharacterSet ==
    \/ \E charIsSigned \in BOOLEAN :
         \E first \in RangeEnds(charIsSigned) :
           \E last \in RangeEnds(charIsSigned) :
              first <= last /\ ConstructRange(first, last, charIsSigned)
    \/ RangeIteration
    \/ \E characterSets \in Strings(ListMembers, 2) :
         ConstructList(characterSets)

SpecCharacterSet ==
    Init /\ [][NextCharacterSet]_vars /\ WF_vars(RangeIteration)

\* a constructed range holds exactly the chars from first to last
RangeExact ==
    (cs.constructor = "range" /\ cs.done)
        => cs.charactersInSet
              = {c \in CharValues(cs.charIsSigned) :
                    cs.first <= c /\ c <= cs.last}

\* a set constructed from a list holds exactly the members of its sets
ListExact ==
    (cs.constructor = "list")
        => \A c \in 0..255 :
              c \in cs.charactersInSet
                 <=> \E i \in 1..Len(cs.list) : c \in cs.list[i]

\* C28: the construction of a range with first <= last ends, the largest
\* char as last included, and the set then holds exactly the chars from
\* first to last; a set made from a list holds exactly the union.
C28_RangeConstructionTerminates ==
    /\ (cs.constructor = "range") ~> cs.done
    /\ [](RangeExact /\ ListExact)

\* the loop of a range whose last is the largest char has wrapped around
C28_LoopWrapped ==
    /\ cs.constructor = "range"
    /\ ~cs.done
    /\ cs.last = CharMax(cs.charIsSigned)
    /\ cs.c < cs.first
    /\ cs.last \in cs.charactersInSet


(***************************************************************************)
(* Claim on NormalizePath and ContainsRelativePath, under SpecNormalize.   *)
(***************************************************************************)
\* C29: NormalizePath never changes whether the path is absolute:
\* ContainsRelativePath() has the same value before and after the call.
C29_NormalizePathKeepsAbsoluteness ==
    Last = "NormalizePath"
    => ContainsRelativePath(uri) = ContainsRelativePath(prev)

\* NormalizePath has run on an absolute path whose first segment after the
\* leading empty one is "..", and the path is still absolute
C29_Witness ==
    /\ calls = <<"SetPath", "NormalizePath">>
    /\ Len(arg) >= 2
    /\ arg[1] = <<>>
    /\ arg[2] = DotDotSegment
    /\ ~ContainsRelativePath(uri)

\* NormalizePath has run on a relative path that starts with a dot segment
\* followed by an empty segment, and the path is still relative
C29_WitnessRelative ==
    /\ calls = <<"SetPath", "NormalizePath">>
    /\ Len(arg) >= 3
    /\ arg[1] \in {DotSegment, DotDotSegment}
    /\ arg[2] = <<>>
    /\ uri.path # <<>>
    /\ ContainsRelativePath(uri)


(***************************************************************************)
(* Claim on operator== and GenerateString, under SpecCompare.              *)
(***************************************************************************)
\* C30: equality is consistent with generation: two Uris that compare
\* equal with == generate the same string.
C30_EqualUrisGenerateSameString ==
    (Last = "Equals" /\ cmp.eq)
    => GenerateString(uri) = GenerateString(ref)

=============================================================================
